---- MODULE Spec2Model ----
(***************************************************************************)
(* A model of the assembly engine of Hermes2D's DiscreteProblem            *)
(* (src/hermes2d/src/discrete_problem.cpp).                                *)
(*                                                                         *)
(* Real numbers are modelled by integers.  Scaling factors, block weights  *)
(* and assembly-list coefficients are counted in units of 1e-13, so that   *)
(* the code's threshold 1e-12 is the integer Tiny.  Form values are small  *)
(* integers.                                                               *)
(*                                                                         *)
(* The module holds several specifications over one set of variables; each *)
(* specification drives one part of the engine and leaves the variables of *)
(* the other parts at their idle values.                                   *)
(*   SpecSparse : assemble() seen from create_sparse_structure (pattern    *)
(*                reuse, pre_add_ij registration, block weights)           *)
(*   SpecVol    : assemble_volume_matrix_forms on one state, form by form, *)
(*                with the local dense buffer and the values inserted      *)
(*   SpecForms  : the twelve assemble_*_forms functions on one state, edge *)
(*                or neighbor segment: which forms are evaluated           *)
(*   SpecTree   : assemble_DG_forms on one inner edge: the multimesh tree  *)
(*                and the update of every mesh's NeighborSearch            *)
(*   SpecInsert : insert_into_multimesh_tree called with any paths         *)
(*   SpecStage  : assemble(): stages, states, finish(), the assembly lists *)
(*                and the caches                                           *)
(*   SpecDG     : the DG forms of the segments of the inner edges of the   *)
(*                union states of two meshes, and the visited flags        *)
(*   SpecQuad   : eval_form with and without adaptive subdivision, and the *)
(*                geometry cache                                           *)
(*   SpecAdapt  : eval_form_adaptive as a stack of calls: the tolerance    *)
(*                checking, the recursion and the integration orders       *)
(*   SpecTraverse : get_multimesh_neighbors_transformations on the trees   *)
(*                insert_into_multimesh_tree builds                        *)
(*   SpecPrev   : the loops over u_ext of the order-inference and the      *)
(*                evaluation routines                                      *)
(***************************************************************************)
EXTENDS Integers, Sequences, FiniteSets, TLC

(***************************************************************************)
(* Bounds of the model.                                                    *)
(***************************************************************************)
\* Number of structural changes (of a space or of the weak form) in one run.
MaxChanges == 1

\* Deepest refinement of a mesh along the edge, in levels below the central
\* element.
MaxDepth == 2

(***************************************************************************)
(* Program constants.                                                      *)
(***************************************************************************)
\* 1e-12 in units of 1e-13: the threshold of every "negligible" test.
Tiny == 10

Abs(x) == IF x < 0 THEN -x ELSE x

Range(s) == {s[k] : k \in DOMAIN s}

\* The DOFs of an assembly list that contribute (dof >= 0).
PosDofs(dofs) == {d \in Range(dofs) : d >= 0}

(***************************************************************************)
(* Areas of a form.  The three special areas are the strings the code      *)
(* compares with; "r1" and "r2" are user markers of the mesh.              *)
(***************************************************************************)
HERMES_ANY == "HERMES_ANY"
H2D_DG_BOUNDARY_EDGE == "H2D_DG_BOUNDARY_EDGE"
H2D_DG_INNER_EDGE == "H2D_DG_INNER_EDGE"

(***************************************************************************)
(* The fixture of SpecSparse: two spaces on one mesh of two elements that  *)
(* share one inner edge (edge 0); edge 1 of each element is a boundary     *)
(* edge.  NULL stands for a missing element of a state.                    *)
(***************************************************************************)
Spaces == {0, 1}
NULL == 0
Elems == {1, 2}
Edges == {0, 1}

\* Traverse::get_next_state: the states of the union mesh, in traversal order.
States == << [i \in Spaces |-> 1], [i \in Spaces |-> 2] >>

\* NeighborSearch::get_neighbors on edge ed of element el (errors ignored on
\* a boundary edge, which then has no neighbor).
Neighbors(el, ed) == IF ed = 0 THEN {3 - el} ELSE {}

\* Space::get_element_assembly_list: the DOFs of space s on element el when
\* the space has change-sequence sq.  A refinement of the space (sq > 0) adds
\* a DOF on element 2.  Global DOFs of space s are 10*s + local; -1 is the
\* sentinel of a constrained (Dirichlet) DOF.
AlDof(s, el, sq) ==
  IF s = 0
  THEN (IF el = 1 THEN <<0, 1, -1>>
        ELSE IF sq = 0 THEN <<2, 3>> ELSE <<2, 3, 4>>)
  ELSE (IF el = 1 THEN <<10, 11>>
        ELSE IF sq = 0 THEN <<12, -1>> ELSE <<12, 13>>)

\* The space a global DOF belongs to.
SpaceOfDof(d) == IF d >= 10 THEN 1 ELSE 0

(***************************************************************************)
(* Forms and weak forms.                                                   *)
(***************************************************************************)
MForm(i, j, sym, sf, areas) == [i |-> i, j |-> j, sym |-> sym, scaling_factor |-> sf, areas |-> areas]
VForm(i, sf, areas) == [i |-> i, scaling_factor |-> sf, areas |-> areas]

\* A scaling factor / weight of 1e-10: not negligible.
Unit == 100 * Tiny

EmptyWF == [mfvol |-> <<>>, mfsurf |-> <<>>, vfvol |-> <<>>, vfsurf |-> <<>>,
            mfsurf_mc |-> <<>>, vfsurf_mc |-> <<>>]

\* The weak forms the SpecSparse fixture switches between.
WeakForms == <<
  \* 1: diagonal volume forms, the first one symmetric
  [EmptyWF EXCEPT !.mfvol = << MForm(0, 0, 1, Unit, <<HERMES_ANY>>),
                               MForm(1, 1, 0, Unit, <<HERMES_ANY>>) >>],
  \* 2: a symmetric off-diagonal volume form (its transposed block is mirrored)
  [EmptyWF EXCEPT !.mfvol = << MForm(0, 0, 0, Unit, <<HERMES_ANY>>),
                               MForm(0, 1, 1, Unit, <<HERMES_ANY>>),
                               MForm(1, 1, 0, Unit, <<HERMES_ANY>>) >>],
  \* 3: DG inner-edge forms coupling the two spaces in both directions
  [EmptyWF EXCEPT !.mfvol = << MForm(0, 0, 0, Unit, <<HERMES_ANY>>),
                               MForm(1, 1, 0, Unit, <<HERMES_ANY>>) >>,
                  !.mfsurf = << MForm(0, 1, 0, Unit, <<H2D_DG_INNER_EDGE>>),
                                MForm(1, 0, 0, Unit, <<H2D_DG_INNER_EDGE>>) >>]
>>

(***************************************************************************)
(* Block weight tables.  null = TRUE stands for block_weights == NULL.     *)
(***************************************************************************)
Table(a00, a01, a10, a11) ==
  [null |-> FALSE, A |-> [m \in Spaces |-> [n \in Spaces |->
      IF m = 0 THEN (IF n = 0 THEN a00 ELSE a01) ELSE (IF n = 0 THEN a10 ELSE a11)]]]

NullTable == [null |-> TRUE, A |-> [m \in Spaces |-> [n \in Spaces |-> 0]]]

\* Tiny - 1 is a negligible weight, Tiny is the smallest one that is not.
Tables == { NullTable,
            Table(Unit, Unit, 0, Unit),
            Table(0, Tiny, Tiny - 1, Unit) }

\* Table::get_A
get_A(bw, m, n) == bw.A[m][n]

VARIABLES
  (* the collaborators, as assemble() sees them *)
  sp_cur,        \* sp_cur[i] = spaces[i]->get_seq()
  wf_cur,        \* wf->get_seq()
  wf_id,         \* which of WeakForms the weak form currently holds
  (* fields of DiscreteProblem *)
  sp_seq,        \* sp_seq[i]; -1 after init()
  wf_seq,        \* wf_seq; -1 after construction
  have_matrix,   \* have_matrix
  (* the sinks *)
  mat_pattern,   \* pairs registered with pre_add_ij since the last mat->free()
  mat_alloc,     \* the matrix has been alloc()ed
  rhs_size,      \* size of the last rhs->alloc(ndof); -1: never allocated
  (* history of the calls, for stating the properties *)
  built,         \* the last build of the matrix pattern: seqs, table, flag
  call,          \* the last assemble call and what it did
  (* SpecVol: numeric assembly of the volume matrix forms of one state *)
  vol_in,             \* the inputs of the calls: stage.mfvol, al, block_weights
  matrix_buffer,      \* matrix_buffer (its cells the assembly lists can reach)
  matrix_buffer_dim,  \* matrix_buffer_dim
  gmat,               \* the values the matrix holds, by (row, col)
  vol_ww,             \* position in the call: 0 outside a call, else the next ww
  vol_calls,          \* number of assemble calls completed
  vol_first,          \* the matrix as the first call left it
  vol_last,           \* what the form assembled last did
  (* SpecForms: the form filters of every assemble_*_forms function *)
  form_env,           \* markers, nat, isempty, al, block_weights, mat, rhs
  form_log,           \* the function run last and what each form of its list did
  (* SpecTree: assemble_DG_forms on one inner edge *)
  neighbor_searches,  \* neighbor_searches: one NeighborSearch per mesh
  raw_searches,       \* history: neighbor_searches as init_neighbors left them
  multimesh_tree,     \* the nodes below root, and whether error() was called
  dg_pc,              \* position in assemble_DG_forms and its local variables
  (* SpecStage, SpecVisited, SpecQuad: the stages and states of assemble() *)
  asm_in,             \* the inputs of the call: mat, rhs, the stages and their states
  asm_pc,             \* position in assemble() and the locals of the running functions
  asm_log,            \* history: the calls made so far, in order
  al_count,           \* number of live AsmList objects of assemble_one_state
  cache_e,            \* cache_e / cache_jwt, by order: NULL or what the entry was computed for
  assembling_caches,  \* assembling_caches: the keys each map of memoized functions holds
  el_visited          \* the elements whose visited flag is set

varsSparse == <<sp_cur, wf_cur, wf_id, sp_seq, wf_seq, have_matrix,
                mat_pattern, mat_alloc, rhs_size, built, call>>

varsVol == <<vol_in, matrix_buffer, matrix_buffer_dim, gmat, vol_ww, vol_calls,
             vol_first, vol_last>>

varsForms == <<form_env, form_log>>

varsTree == <<neighbor_searches, raw_searches, multimesh_tree, dg_pc>>

varsAsm == <<asm_in, asm_pc, asm_log, al_count, cache_e, assembling_caches, el_visited>>

vars == <<varsSparse, varsVol, varsForms, varsTree, varsAsm>>

(***************************************************************************)
(* Region and weight filters.                                              *)
(***************************************************************************)
\* MarkersConversion::get_internal_marker: the internal (integer) marker of a
\* user marker; a string that is no user marker of the mesh has none (-1).
get_internal_marker(area) ==
  IF area = "r1" THEN 1 ELSE IF area = "r2" THEN 2 ELSE -1

assemble_this_form_vol_inverted(areas, marker) ==
  \E ss \in DOMAIN areas :
     areas[ss] = HERMES_ANY \/ marker # get_internal_marker(areas[ss])

\* The area test of the volume forms.
assemble_this_form_vol(areas, marker) ==
  \E ss \in DOMAIN areas :
     areas[ss] = HERMES_ANY \/ marker = get_internal_marker(areas[ss])

\* The weight test made where the pattern is built: a block is left out when
\* its weight is negligible, unless it is a diagonal block and
\* force_diagonal_blocks is set.
BlockSkipped(fdb, bw, m, n) ==
  /\ (m = n) = FALSE \/ fdb = FALSE
  /\ ~bw.null
  /\ Abs(get_A(bw, m, n)) < Tiny

\* The weight test of numeric assembly.
WeightNegligible(bw, m, n) == ~bw.null /\ Abs(get_A(bw, m, n)) < Tiny

ScalingNegligible_zero_only(sf) == sf = 0

\* The test on a form's scaling_factor.
ScalingNegligible(sf) == Abs(sf) < Tiny

\* The `continue`s at the head of the loop of assemble_volume_matrix_forms.
VolMatrixFormSkipped(f, isempty, marker, bw) ==
  \/ isempty[f.i] \/ isempty[f.j]
  \/ ScalingNegligible(f.scaling_factor)
  \/ ~assemble_this_form_vol(f.areas, marker)
  \/ WeightNegligible(bw, f.i, f.j)

\* The `continue`s at the head of the loop of assemble_DG_matrix_forms.
DGMatrixFormSkipped(f, isempty, bw) ==
  \/ f.areas[1] # H2D_DG_INNER_EDGE
  \/ isempty[f.i] \/ isempty[f.j]
  \/ ScalingNegligible(f.scaling_factor)
  \/ WeightNegligible(bw, f.i, f.j)

(***************************************************************************)
(* create_sparse_structure                                                 *)
(***************************************************************************)
\* The weak form in force.
W == WeakForms[wf_id]

is_up_to_date_wrong_wf ==
  /\ have_matrix
  /\ \A i \in Spaces : sp_cur[i] = sp_seq[i]
  /\ wf_cur # wf_seq

is_up_to_date ==
  /\ have_matrix
  /\ \A i \in Spaces : sp_cur[i] = sp_seq[i]
  /\ wf_cur = wf_seq

\* is_DG: some surface form of the weak form is a DG inner-edge form.
is_DG(wfr) ==
  \/ \E k \in DOMAIN wfr.mfsurf : wfr.mfsurf[k].areas[1] = H2D_DG_INNER_EDGE
  \/ \E k \in DOMAIN wfr.vfsurf : wfr.vfsurf[k].areas[1] = H2D_DG_INNER_EDGE
  \/ \E k \in DOMAIN wfr.mfsurf_mc : wfr.mfsurf_mc[k].areas[1] = H2D_DG_INNER_EDGE
  \/ \E k \in DOMAIN wfr.vfsurf_mc : wfr.vfsurf_mc[k].areas[1] = H2D_DG_INNER_EDGE

\* WeakForm::get_blocks(force_diagonal_blocks): block (m, n) is coupled when a
\* matrix form has it as (i, j), or as (j, i) and is (anti)symmetric.
get_blocks(wfr, fdb) ==
  [m \in Spaces |-> [n \in Spaces |->
     \/ (fdb /\ m = n)
     \/ \E k \in DOMAIN wfr.mfvol :
           \/ (wfr.mfvol[k].i = m /\ wfr.mfvol[k].j = n)
           \/ (wfr.mfvol[k].sym # 0 /\ wfr.mfvol[k].i = n /\ wfr.mfvol[k].j = m)
     \/ \E k \in DOMAIN wfr.mfsurf :
           wfr.mfsurf[k].i = m /\ wfr.mfsurf[k].j = n ]]

\* get_num_dofs: the sum of the spaces' DOF counts.
get_num_dofs(sq) ==
  Cardinality(UNION {PosDofs(AlDof(s, el, sq[s])) : <<s, el>> \in Spaces \X Elems})

StateIdx == DOMAIN States

\* The pre_add_ij calls of the DG part of pattern discovery, for all states.
DGPreAdd(wfr, fdb, bw, sq) ==
  LET blocks == get_blocks(wfr, fdb)
      OneNeighbor(e, m, el, nb) ==
        IF (blocks[m][el] \/ blocks[el][m]) /\ e[m] # NULL
        THEN LET am == PosDofs(AlDof(m, e[m], sq[m]))
                 an == PosDofs(AlDof(el, nb, sq[el]))
             IN  (IF blocks[m][el] THEN am \X an ELSE {})
                 \cup (IF blocks[el][m] THEN an \X am ELSE {})
        ELSE {}
  IN UNION { UNION { OneNeighbor(States[k], m, el, nb) :
                       nb \in UNION {Neighbors(States[k][el], ed) : ed \in Edges} } :
             <<k, m, el>> \in {t \in StateIdx \X Spaces \X Spaces :
                                  ~BlockSkipped(fdb, bw, t[2], t[3])} }

\* The pre_add_ij calls of the volume part of pattern discovery.
VolPreAdd(wfr, fdb, bw, sq) ==
  LET blocks == get_blocks(wfr, fdb)
  IN UNION { PosDofs(AlDof(t[2], States[t[1]][t[2]], sq[t[2]]))
               \X PosDofs(AlDof(t[3], States[t[1]][t[3]], sq[t[3]])) :
             t \in {t \in StateIdx \X Spaces \X Spaces :
                      /\ ~BlockSkipped(fdb, bw, t[2], t[3])
                      /\ blocks[t[2]][t[3]]
                      /\ States[t[1]][t[2]] # NULL
                      /\ States[t[1]][t[3]] # NULL} }

\* Everything registered by one build of the matrix pattern.
BuildPattern(wfr, fdb, bw, sq) ==
  (IF is_DG(wfr) THEN DGPreAdd(wfr, fdb, bw, sq) ELSE {})
    \cup VolPreAdd(wfr, fdb, bw, sq)

(***************************************************************************)
(* The (row, col) pairs numeric assembly adds to, in one assemble call     *)
(* with a matrix sink.                                                     *)
(***************************************************************************)
\* Element::marker of the fixture's elements.
ElemMarker(el) == 1

\* The rows of the i-loop of assemble_volume_matrix_forms that are not
\* skipped and so reach mat->add.
VolRowsRun(f, alm) ==
  {i \in DOMAIN alm : (f.i # f.j /\ f.sym # 0) \/ alm[i] >= 0}

\* SparseMatrix::add(m, n, block, rows, cols) leaves out the entries whose row
\* or column is negative; the transposed block of an (anti)symmetric
\* off-diagonal form goes to (rows of space j, columns of space i).
VolMatrixTouched(f, alm, aln) ==
  IF VolRowsRun(f, alm) = {} THEN {}
  ELSE (PosDofs(alm) \X PosDofs(aln))
         \cup (IF f.i # f.j /\ f.sym # 0 THEN PosDofs(aln) \X PosDofs(alm) ELSE {})

DG_matrix_forms_present(wfr) ==
  \/ \E k \in DOMAIN wfr.mfsurf : wfr.mfsurf[k].areas[1] = H2D_DG_INNER_EDGE
  \/ \E k \in DOMAIN wfr.mfsurf_mc : wfr.mfsurf_mc[k].areas[1] = H2D_DG_INNER_EDGE

DG_vector_forms_present(wfr) ==
  \/ \E k \in DOMAIN wfr.vfsurf : wfr.vfsurf[k].areas[1] = H2D_DG_INNER_EDGE
  \/ \E k \in DOMAIN wfr.vfsurf_mc : wfr.vfsurf_mc[k].areas[1] = H2D_DG_INNER_EDGE

\* NeighborSearch::create_extended_asmlist: the central element's list followed
\* by the neighbor's.
ExtDofs(s, central, nb, sq) == AlDof(s, central, sq[s]) \o AlDof(s, nb, sq[s])

\* The elements init_state has marked visited when state k is assembled.
VisitedAt(k) == {States[j][s] : <<j, s>> \in (1..k) \X Spaces} \ {NULL}

IsEmpty(e) == [s \in Spaces |-> e[s] = NULL]

\* One state: the volume matrix forms, then for every inner-edge neighbor
\* that is not yet visited the DG matrix forms.
StateTouched(wfr, bw, sq, k) ==
  LET e == States[k]
      vol == UNION { VolMatrixTouched(wfr.mfvol[w],
                                      AlDof(wfr.mfvol[w].i, e[wfr.mfvol[w].i], sq[wfr.mfvol[w].i]),
                                      AlDof(wfr.mfvol[w].j, e[wfr.mfvol[w].j], sq[wfr.mfvol[w].j])) :
                     w \in {w \in DOMAIN wfr.mfvol :
                              ~VolMatrixFormSkipped(wfr.mfvol[w], IsEmpty(e), ElemMarker(e[0]), bw)} }
      nbs == UNION {Neighbors(e[0], ed) : ed \in Edges} \ VisitedAt(k)
      dg  == UNION { PosDofs(ExtDofs(wfr.mfsurf[t[1]].i, e[0], t[2], sq))
                       \X PosDofs(ExtDofs(wfr.mfsurf[t[1]].j, e[0], t[2], sq)) :
                     t \in {t \in (DOMAIN wfr.mfsurf) \X nbs :
                              ~DGMatrixFormSkipped(wfr.mfsurf[t[1]], IsEmpty(e), bw)} }
  IN vol \cup (IF DG_matrix_forms_present(wfr) THEN dg ELSE {})

NumericTouched(wfr, bw, sq) == UNION {StateTouched(wfr, bw, sq, k) : k \in StateIdx}

\* The two computations above, tabulated once over the inputs of the fixture
\* (as sets of <<input, result>>, looked up by input).
SeqVectors == [Spaces -> 0..MaxChanges]

PatternSet ==
  { <<t, BuildPattern(WeakForms[t[1]], t[2], t[3], t[4])>> :
      t \in (DOMAIN WeakForms) \X BOOLEAN \X Tables \X SeqVectors }

PatternTable(id, fdb, bw, sq) ==
  (CHOOSE p \in PatternSet : p[1] = <<id, fdb, bw, sq>>)[2]

TouchedSet ==
  { <<t, NumericTouched(WeakForms[t[1]], t[2], t[3])>> :
      t \in (DOMAIN WeakForms) \X Tables \X SeqVectors }

TouchedTable(id, bw, sq) ==
  (CHOOSE p \in TouchedSet : p[1] = <<id, bw, sq>>)[2]

(***************************************************************************)
(* The state after construction, before any assemble call.                 *)
(***************************************************************************)
NoBuild == [valid |-> FALSE, sp |-> [i \in Spaces |-> -1], wf |-> -1,
            fdb |-> FALSE, bw |-> NullTable]

\* The record of the last assemble call:
\*   path        "reuse" or "rebuild", the path create_sparse_structure took
\*   ops         the backend operations create_sparse_structure performed
\*   mat, rhs    the sinks that were present
\*   repeat      the call before had the same sinks and nothing changed between
\*   mat_before  some earlier call had the matrix sink
\*   sp, wf      the change-sequences at the time of the call
\*   added       numeric assembly added a value to the matrix
\*   unregistered  the pairs it added to that the pattern does not hold
\*   aborted     "no", or where the call was left by an exception:
\*               "discovery" (create_sparse_structure) or "numeric"
\*   after_abort the call before was aborted
NoCall == [path |-> "none", ops |-> {}, mat |-> FALSE, rhs |-> FALSE,
           repeat |-> FALSE, mat_before |-> FALSE,
           sp |-> [i \in Spaces |-> -1], wf |-> -1,
           added |-> FALSE, unregistered |-> {},
           aborted |-> "no", after_abort |-> FALSE]

\* DiscreteProblem::init as create_sparse_structure sees it.
SparseStart ==
  /\ sp_cur = [i \in Spaces |-> 0]
  /\ wf_cur = 0
  /\ sp_seq = [i \in Spaces |-> -1]
  /\ wf_seq = -1
  /\ have_matrix = FALSE
  /\ mat_pattern = {}
  /\ mat_alloc = FALSE
  /\ rhs_size = -1
  /\ built = NoBuild
  /\ call = NoCall

(***************************************************************************)
(* assemble_volume_matrix_forms: the local dense buffer and the values     *)
(* inserted.  One state with one element; al[s] is the assembly list of    *)
(* space s on it (dof and coef; idx is the position in the list).          *)
(***************************************************************************)
\* get_matrix_buffer(9) at the start of assemble().
BufferDim == 9

\* The rows and columns of the buffer the assembly lists of the fixture reach.
BufIdx == {1, 2, 3}

Buffers(vals) == [BufIdx -> [BufIdx -> vals]]

\* new_matrix leaves the cells uninitialised: what they hold is arbitrary.
\* The model draws each fill from the ones that hold one value above the
\* diagonal, one below it and one on it.
Junk == 7

Garbage ==
  { [i \in BufIdx |-> [j \in BufIdx |->
       IF i < j THEN t[1] ELSE IF i > j THEN t[2] ELSE t[3]]] :
    t \in {0, Junk} \X {0, Junk} \X {0, Junk} }

\* No buffer (matrix_buffer == NULL, matrix_buffer_dim == 0); never read.
NoBuffer == [i \in BufIdx |-> [j \in BufIdx |-> 0]]

AsmList(dof, coef) == [dof |-> dof, coef |-> coef]

\* The assembly lists of the two spaces on the element: with and without a
\* constrained DOF (-1) and a negligible coefficient (Tiny is not > 1e-12).
VolLists ==
  { [s \in Spaces |-> IF s = 0 THEN t[1] ELSE t[2]] :
    t \in { AsmList(<<0, 1, 2>>, <<Tiny + 1, Tiny + 1, Tiny + 2>>),
            AsmList(<<0, -1, 2>>, <<Tiny + 1, Tiny + 1, Tiny>>) }
          \X { AsmList(<<10, 11>>, <<Tiny + 1, Tiny + 2>>),
               AsmList(<<-1, 11, 12>>, <<Tiny + 1, Tiny + 1, Tiny + 1>>) } }

VolDofs == {0, 1, 2, 10, 11, 12}

VolPairs == VolDofs \X VolDofs

ZeroMatrix == [p \in VolPairs |-> 0]

\* stage.mfvol of the calls.
VolStages ==
  { << MForm(0, 0, 1, Tiny, <<HERMES_ANY>>) >>,
    << MForm(0, 0, 0, Tiny, <<"r1">>), MForm(0, 0, 1, 2 * Tiny, <<HERMES_ANY>>) >>,
    << MForm(0, 1, -1, Tiny, <<HERMES_ANY>>) >>,
    << MForm(0, 1, 1, Tiny, <<"r2", "r1">>), MForm(1, 1, 1, Tiny, <<HERMES_ANY>>) >>,
    << MForm(1, 1, 0, Tiny - 1, <<HERMES_ANY>>), MForm(0, 0, 0, Tiny, <<"r2">>),
       MForm(1, 0, -1, -Tiny, <<"r1">>) >> }

VolTables == { NullTable, Table(2 * Tiny, Tiny, Tiny - 1, Tiny) }

\* eval_form on the basis function j of space f.j and the test function i of
\* space f.i: the value of the integral, symmetric in (i, j) for a symmetric
\* form.
eval_form(f, j, i) ==
  f.scaling_factor * (1 + f.i + 2 * f.j + (IF f.sym = 1 THEN i + j ELSE 3 * i + j))

\* block_scaling_coeff * x: the coefficient is 1. without a table.
ScaleBlock(bw, m, n, x) == IF bw.null THEN x ELSE get_A(bw, m, n) * x

\* get_matrix_buffer(n), fresh being what a new allocation would hold.
get_matrix_buffer(n, fresh) ==
  IF n <= matrix_buffer_dim
  THEN [buf |-> matrix_buffer, dim |-> matrix_buffer_dim]
  ELSE [buf |-> fresh, dim |-> n]

\* chsgn(matrix, m, n): negates the m x n leading cells.
chsgn(buf, m, n) ==
  [r \in BufIdx |-> [c \in BufIdx |->
     IF r <= m /\ c <= n THEN -buf[r][c] ELSE buf[r][c]]]

\* transpose(matrix, m, n): transposes the m x n leading cells in place, the
\* result being the n x m leading cells.
transpose(buf, m, n) ==
  [r \in BufIdx |-> [c \in BufIdx |->
     IF r <= n /\ c <= m THEN buf[c][r] ELSE buf[r][c]]]

\* SparseMatrix::add(m, n, mat, rows, cols) on the values g: cell (i, j) is
\* added at (rows[i], cols[j]); a negative row or column is left out.
MatAdd(g, m, n, buf, rows, cols) ==
  [p \in DOMAIN g |->
     LET hit == {ij \in (1..m) \X (1..n) : rows[ij[1]] = p[1] /\ cols[ij[2]] = p[2]}
     IN  IF hit = {} THEN g[p]
         ELSE LET ij == CHOOSE ij \in hit : TRUE IN g[p] + buf[ij[1]][ij[2]]]

Max(a, b) == IF a >= b THEN a ELSE b

\* What one pass over the rows of a form has done so far: the buffer, the
\* values added at the block (rows of space i, columns of space j) and at the
\* transposed block, the number of eval_form calls and of mat->add calls.
RowStart(buf) ==
  [buf |-> buf, dir |-> ZeroMatrix, tra |-> ZeroMatrix, evals |-> 0, adds |-> 0]

FlipBlock_no_chsgn(f, buf, cm, cn) == transpose(buf, cm, cn)

\* The buffer made ready for the transposed block: negated for an
\* antisymmetric form, then transposed.
FlipBlock(f, buf, cm, cn) ==
  transpose(IF f.sym < 0 THEN chsgn(buf, cm, cn) ELSE buf, cm, cn)

\* The body of the loop over the rows i of al[m], for the form f.
VolMatrixRow(f, al, bw, matp, i, st) ==
  LET m   == f.i
      n   == f.j
      tra == (m # n) /\ (f.sym # 0)
      sym == (m = n) /\ (f.sym = 1)
      cm  == Len(al[m].dof)
      cn  == Len(al[n].dof)
      integrate(j) == Abs(al[m].coef[i]) > Tiny /\ Abs(al[n].coef[j]) > Tiny
      val(j) == IF integrate(j)
                THEN ScaleBlock(bw, m, n, eval_form(f, j, i) * al[n].coef[j] * al[m].coef[i])
                ELSE 0
      \* the columns j whose cell (i, j) is written
      written == {j \in 1..cn : /\ al[n].dof[j] >= 0
                                /\ matp
                                /\ ~(sym /\ j < i)}
      filled == [r \in BufIdx |-> [c \in BufIdx |->
                   IF r = i /\ c \in written THEN val(c)
                   ELSE IF sym /\ c = i /\ r \in written THEN val(r)
                   ELSE st.buf[r][c]]]
      dir1 == IF matp THEN MatAdd(st.dir, cm, cn, filled, al[m].dof, al[n].dof)
              ELSE st.dir
      flipped == FlipBlock(f, filled, cm, cn)
      evals1 == st.evals + Cardinality({j \in written : integrate(j)})
  IN  IF ~tra /\ al[m].dof[i] < 0 THEN st
      ELSE IF tra
      THEN [buf |-> flipped, dir |-> dir1,
            tra |-> IF matp THEN MatAdd(st.tra, cn, cm, flipped, al[n].dof, al[m].dof)
                    ELSE st.tra,
            evals |-> evals1,
            adds |-> st.adds + (IF matp THEN 2 ELSE 0)]
      ELSE [buf |-> filled, dir |-> dir1, tra |-> st.tra,
            evals |-> evals1,
            adds |-> st.adds + (IF matp THEN 1 ELSE 0)]

RECURSIVE VolMatrixRows(_, _, _, _, _, _)
\* The loop over the rows, from row i on.
VolMatrixRows(f, al, bw, matp, i, st) ==
  IF i > Len(al[f.i].dof) THEN st
  ELSE VolMatrixRows(f, al, bw, matp, i + 1, VolMatrixRow(f, al, bw, matp, i, st))

(***************************************************************************)
(* SpecVol: assemble calls on unchanged inputs, the volume matrix forms of *)
(* the state assembled one form at a time.                                 *)
(***************************************************************************)
\* Number of assemble calls in one run.
MaxCalls == 2

\* Calls of insert_into_multimesh_tree in SpecInsert.
MaxInserts == 3

\* Stages of one assemble call, and states of one stage, in SpecStage.
MaxStages == 2

MaxStates == 2

\* Forms evaluated on one state.
MaxEvals == 2

\* Calls of eval_form_adaptive on the stack in SpecAdapt.
MaxAdapt == 2

NoForm == [ran |-> FALSE, f |-> MForm(0, 0, 0, 0, <<>>),
           dir |-> ZeroMatrix, tra |-> ZeroMatrix, evals |-> 0, adds |-> 0]

\* No assemble_*_forms function has run.
NoLog == [kind |-> "none", entries |-> <<>>]

FormsIdle ==
  /\ form_env = [marker |-> 0, edge_marker |-> 0,
                 nat |-> [s \in Spaces |-> FALSE], isempty |-> [s \in Spaces |-> FALSE],
                 bw |-> NullTable, mat |-> FALSE, rhs |-> FALSE]
  /\ form_log = NoLog

\* assemble_DG_forms has not been entered.
TreeIdle ==
  /\ neighbor_searches = <<>>
  /\ raw_searches = <<>>
  /\ multimesh_tree = [nodes |-> <<>>, err |-> FALSE]
  /\ dg_pc = [phase |-> "idle", rec |-> 0, i |-> 0, n |-> 0, num_neighbors |-> 0,
              visited |-> FALSE, matrix_forms |-> FALSE, vector_forms |-> FALSE,
              assembled |-> <<>>]

\* assemble() has not been entered: geometry caches as the constructor
\* leaves them, no memoized function, no element marked.
AsmIdle ==
  /\ asm_in = [kind |-> "none"]
  /\ asm_pc = [at |-> "idle"]
  /\ asm_log = <<>>
  /\ al_count = 0
  /\ cache_e = <<>>
  /\ assembling_caches = [const_cache_fn_triangles |-> {}, const_cache_fn_quads |-> {},
                          cache_fn_triangles |-> {}, cache_fn_quads |-> {},
                          cache_fn_ord |-> {}]
  /\ el_visited = {}

VolIdle ==
  /\ vol_in = [forms |-> <<>>, al |-> [s \in Spaces |-> AsmList(<<>>, <<>>)],
               bw |-> NullTable]
  /\ matrix_buffer = NoBuffer
  /\ matrix_buffer_dim = 0
  /\ gmat = ZeroMatrix
  /\ vol_ww = 0
  /\ vol_calls = 0
  /\ vol_first = ZeroMatrix
  /\ vol_last = NoForm

InitVol ==
  /\ SparseStart
  /\ wf_id = 1
  /\ vol_in \in [forms : VolStages, al : VolLists, bw : VolTables]
  /\ matrix_buffer = NoBuffer
  /\ matrix_buffer_dim = 0
  /\ gmat = ZeroMatrix
  /\ vol_ww = 0
  /\ vol_calls = 0
  /\ vol_first = ZeroMatrix
  /\ vol_last = NoForm
  /\ FormsIdle
  /\ TreeIdle
  /\ AsmIdle

\* assemble() up to the first stage: the matrix is zeroed (or rebuilt), the
\* buffer is dropped and allocated anew with get_matrix_buffer(9).
VolBegin ==
  /\ vol_ww = 0
  /\ vol_calls < MaxCalls
  /\ \E fresh \in Garbage :
        /\ matrix_buffer' = fresh
        /\ matrix_buffer_dim' = BufferDim
  /\ gmat' = ZeroMatrix
  /\ vol_ww' = 1
  /\ vol_last' = NoForm
  /\ UNCHANGED <<vol_in, vol_calls, vol_first, varsSparse, varsForms, varsTree, varsAsm>>

\* One turn of the loop over stage.mfvol in assemble_volume_matrix_forms.
VolForm ==
  /\ vol_ww \in DOMAIN vol_in.forms
  /\ LET f    == vol_in.forms[vol_ww]
         al   == vol_in.al
         need == Max(Len(al[f.i].dof), Len(al[f.j].dof))
     IN  IF VolMatrixFormSkipped(f, [s \in Spaces |-> FALSE], ElemMarker(1), vol_in.bw)
         THEN /\ vol_last' = [NoForm EXCEPT !.f = f]
              /\ UNCHANGED <<matrix_buffer, matrix_buffer_dim, gmat>>
         ELSE \E fresh \in (IF need <= matrix_buffer_dim THEN {NoBuffer} ELSE Garbage) :
                \E st \in {VolMatrixRows(f, al, vol_in.bw, TRUE, 1,
                                         RowStart(get_matrix_buffer(need, fresh).buf))} :
                   /\ matrix_buffer' = st.buf
                   /\ matrix_buffer_dim' = get_matrix_buffer(need, fresh).dim
                   /\ gmat' = [p \in VolPairs |-> gmat[p] + st.dir[p] + st.tra[p]]
                   /\ vol_last' = [ran |-> TRUE, f |-> f, dir |-> st.dir, tra |-> st.tra,
                                   evals |-> st.evals, adds |-> st.adds]
  /\ vol_ww' = vol_ww + 1
  /\ UNCHANGED <<vol_in, vol_calls, vol_first, varsSparse, varsForms, varsTree, varsAsm>>

\* The end of assemble(): the buffer is deleted.
VolEnd ==
  /\ vol_ww = Len(vol_in.forms) + 1
  /\ matrix_buffer' = NoBuffer
  /\ matrix_buffer_dim' = 0
  /\ vol_ww' = 0
  /\ vol_calls' = vol_calls + 1
  /\ vol_first' = IF vol_calls = 0 THEN gmat ELSE vol_first
  /\ UNCHANGED <<vol_in, gmat, vol_last, varsSparse, varsForms, varsTree, varsAsm>>

NextVol == VolBegin \/ VolForm \/ VolEnd

SpecVol == InitVol /\ [][NextVol]_vars

(***************************************************************************)
(* SpecForms: each assemble_*_forms function, run on a list of forms of    *)
(* its kind, on one state (volume forms), one boundary edge (boundary      *)
(* forms) or one neighbor segment of an inner edge (DG forms).  What is    *)
(* recorded of every form of the list is the number of its eval_form /     *)
(* eval_dg_form calls and of its mat->add / rhs->add calls.                *)
(***************************************************************************)
\* Multi-component forms: coordinates instead of (i, j) or i.
McMForm(coordinates, sym, sf, areas) ==
  [coordinates |-> coordinates, sym |-> sym, scaling_factor |-> sf, areas |-> areas]

McVForm(coordinates, sf, areas) ==
  [coordinates |-> coordinates, scaling_factor |-> sf, areas |-> areas]

\* boundary_markers_conversion->get_internal_marker: "b1" and "b2" are the
\* user markers of the boundary; any other string has no internal marker.
get_internal_boundary_marker(area) ==
  IF area = "b1" THEN 1 ELSE IF area = "b2" THEN 2 ELSE -1

\* The area test of the boundary forms.
assemble_this_form_surf(areas, marker) ==
  \E ss \in DOMAIN areas :
     \/ areas[ss] = HERMES_ANY
     \/ marker = get_internal_boundary_marker(areas[ss])
     \/ areas[ss] = H2D_DG_BOUNDARY_EDGE

\* The assembly lists of the state (of the edge, for surface forms) and of
\* the neighbor across the inner edge.
FormAl == [s \in Spaces |->
             IF s = 0 THEN AsmList(<<0, -1, 2>>, <<Tiny + 1, Tiny + 1, Tiny>>)
             ELSE AsmList(<<10, 11>>, <<Tiny + 1, Tiny + 2>>)]

NeighborAl == [s \in Spaces |->
                 IF s = 0 THEN AsmList(<<3, 4>>, <<Tiny + 1, Tiny + 1>>)
                 ELSE AsmList(<<-1, 13>>, <<Tiny + 1, Tiny + 1>>)]

\* NeighborSearch::create_extended_asmlist: the DOFs of the central list
\* followed by those of the neighbor's.
ExtendedDofs(s) == FormAl[s].dof \o NeighborAl[s].dof

Entry(f, evals, adds) == [f |-> f, evals |-> evals, adds |-> adds]

\* A form the loop moves past with `continue`.
Skip(f) == Entry(f, 0, 0)

\* The rows i of al[m] with dof >= 0 whose coefficient is not negligible.
RowsIntegrated(m) ==
  {i \in DOMAIN FormAl[m].dof : FormAl[m].dof[i] >= 0 /\ Abs(FormAl[m].coef[i]) > Tiny}

\* The (i, j) with both DOFs >= 0.
PairsFilled(m, n) ==
  {ij \in (DOMAIN FormAl[m].dof) \X (DOMAIN FormAl[n].dof) :
     FormAl[m].dof[ij[1]] >= 0 /\ FormAl[n].dof[ij[2]] >= 0}

\* Those of them that are integrated: both coefficients not negligible.
PairsIntegrated(m, n) ==
  {ij \in PairsFilled(m, n) :
     Abs(FormAl[m].coef[ij[1]]) > Tiny /\ Abs(FormAl[n].coef[ij[2]]) > Tiny}

\* assemble_volume_matrix_forms, one form.
VolMatrixEntry(f, env) ==
  IF VolMatrixFormSkipped(f, env.isempty, env.marker, env.bw) THEN Skip(f)
  ELSE LET st == VolMatrixRows(f, FormAl, env.bw, env.mat, 1, RowStart(NoBuffer))
       IN  Entry(f, st.evals, st.adds)

\* assemble_multicomponent_volume_matrix_forms, one form.
McVolMatrixEntry(f, env) ==
  LET m == f.coordinates[1][1]
      n == f.coordinates[1][2]
      pairs == IF f.sym = 0 THEN PairsIntegrated(m, n)
               ELSE {ij \in PairsIntegrated(m, n) : ~(ij[2] < ij[1])}
      adds == IF f.sym = 0 THEN Cardinality(pairs)
              ELSE Cardinality(pairs) + Cardinality({ij \in pairs : ij[1] # ij[2]})
  IN  IF ScalingNegligible(f.scaling_factor) \/ ~assemble_this_form_vol(f.areas, env.marker)
      THEN Skip(f)
      ELSE IF env.mat THEN Entry(f, Cardinality(pairs), adds * Len(f.coordinates))
      ELSE Skip(f)

\* The (row, col) of the mat->add(row, col, value) calls of
\* assemble_multicomponent_volume_matrix_forms for one form: the DOFs tested
\* are those of the first pair of coordinates, the DOFs passed are those of
\* every pair of coordinates at the same i and j.
McVolMatrixDofs(f, env) ==
  LET m == f.coordinates[1][1]
      n == f.coordinates[1][2]
      pairs == IF f.sym = 0 THEN PairsIntegrated(m, n)
               ELSE {ij \in PairsIntegrated(m, n) : ~(ij[2] < ij[1])}
      dof(s, i) == FormAl[s].dof[i]
  IN  IF ScalingNegligible(f.scaling_factor) \/ ~assemble_this_form_vol(f.areas, env.marker)
         \/ ~env.mat
      THEN {}
      ELSE UNION { { <<dof(f.coordinates[c][1], ij[1]), dof(f.coordinates[c][2], ij[2])>> }
                   \cup (IF f.sym # 0 /\ ij[1] # ij[2]
                         THEN { <<dof(f.coordinates[c][1], ij[2]),
                                  dof(f.coordinates[c][2], ij[1])>> }
                         ELSE {}) :
                   c \in DOMAIN f.coordinates, ij \in pairs }

\* The rows of the rhs->add(row, value) calls of
\* assemble_multicomponent_volume_vector_forms for one form.
McVolVectorDofs(f, env) ==
  IF ScalingNegligible(f.scaling_factor) \/ ~assemble_this_form_vol(f.areas, env.marker)
     \/ ~env.rhs
  THEN {}
  ELSE { <<FormAl[f.coordinates[c]].dof[i]>> :
         c \in DOMAIN f.coordinates, i \in RowsIntegrated(f.coordinates[1]) }

\* The record of a form with the DOFs its insertions were made at.
WithDofs(entry, dofs) ==
  [f |-> entry.f, evals |-> entry.evals, adds |-> entry.adds, dofs |-> dofs]

\* assemble_volume_vector_forms, one form.
VolVectorEntry(f, env) ==
  IF \/ env.isempty[f.i]
     \/ ScalingNegligible(f.scaling_factor)
     \/ ~assemble_this_form_vol(f.areas, env.marker)
  THEN Skip(f)
  ELSE Entry(f, Cardinality(RowsIntegrated(f.i)), Cardinality(RowsIntegrated(f.i)))

\* assemble_multicomponent_volume_vector_forms, one form.
McVolVectorEntry(f, env) ==
  IF ScalingNegligible(f.scaling_factor) \/ ~assemble_this_form_vol(f.areas, env.marker)
  THEN Skip(f)
  ELSE Entry(f, Cardinality(RowsIntegrated(f.coordinates[1])),
                Cardinality(RowsIntegrated(f.coordinates[1])) * Len(f.coordinates))

\* assemble_surface_matrix_forms, one form.
SurfMatrixEntry(f, env) ==
  IF \/ env.isempty[f.i] \/ env.isempty[f.j]
     \/ ~env.nat[f.i] \/ ~env.nat[f.j]
     \/ ScalingNegligible(f.scaling_factor)
     \/ f.areas[1] = H2D_DG_INNER_EDGE
     \/ ~assemble_this_form_surf(f.areas, env.edge_marker)
     \/ WeightNegligible(env.bw, f.i, f.j)
  THEN Skip(f)
  ELSE IF env.mat THEN Entry(f, Cardinality(PairsIntegrated(f.i, f.j)), 1)
  ELSE Skip(f)

\* assemble_multicomponent_surface_matrix_forms, one form.
McSurfMatrixEntry(f, env) ==
  LET m == f.coordinates[1][1]
      n == f.coordinates[1][2]
  IN  IF \/ ~env.nat[m] \/ ~env.nat[n]
         \/ ScalingNegligible(f.scaling_factor)
         \/ f.areas[1] = H2D_DG_INNER_EDGE
         \/ ~assemble_this_form_surf(f.areas, env.edge_marker)
      THEN Skip(f)
      ELSE IF env.mat
      THEN Entry(f, Cardinality(PairsIntegrated(m, n)),
                    Cardinality(PairsIntegrated(m, n)) * Len(f.coordinates))
      ELSE Skip(f)

\* assemble_surface_vector_forms, one form.
SurfVectorEntry(f, env) ==
  IF \/ env.isempty[f.i]
     \/ ScalingNegligible(f.scaling_factor)
     \/ f.areas[1] = H2D_DG_INNER_EDGE
     \/ ~assemble_this_form_surf(f.areas, env.edge_marker)
     \/ (f.areas[1] = HERMES_ANY /\ ~env.nat[f.i])
  THEN Skip(f)
  ELSE Entry(f, Cardinality(RowsIntegrated(f.i)), Cardinality(RowsIntegrated(f.i)))

\* assemble_multicomponent_surface_vector_forms, one form.
McSurfVectorEntry(f, env) ==
  LET m == f.coordinates[1]
  IN  IF \/ ScalingNegligible(f.scaling_factor)
         \/ f.areas[1] = H2D_DG_INNER_EDGE
         \/ ~assemble_this_form_surf(f.areas, env.edge_marker)
         \/ (f.areas[1] = HERMES_ANY /\ ~env.nat[m])
      THEN Skip(f)
      ELSE Entry(f, Cardinality(RowsIntegrated(m)),
                    Cardinality(RowsIntegrated(m)) * Len(f.coordinates))

\* The (i, j) of the extended lists with both DOFs >= 0: every one of them
\* is evaluated (the DG forms do not look at the coefficients).
ExtPairs(m, n) ==
  {ij \in (DOMAIN ExtendedDofs(m)) \X (DOMAIN ExtendedDofs(n)) :
     ExtendedDofs(m)[ij[1]] >= 0 /\ ExtendedDofs(n)[ij[2]] >= 0}

\* assemble_DG_matrix_forms, one form.
DGMatrixEntry(f, env) ==
  IF DGMatrixFormSkipped(f, env.isempty, env.bw) THEN Skip(f)
  ELSE IF env.mat THEN Entry(f, Cardinality(ExtPairs(f.i, f.j)), 1)
  ELSE Skip(f)

\* assemble_multicomponent_DG_matrix_forms, one form.
McDGMatrixEntry(f, env) ==
  IF f.areas[1] # H2D_DG_INNER_EDGE \/ ScalingNegligible(f.scaling_factor)
  THEN Skip(f)
  ELSE IF env.mat
  THEN Entry(f, Cardinality(ExtPairs(f.coordinates[1][1], f.coordinates[1][2])),
                Cardinality(ExtPairs(f.coordinates[1][1], f.coordinates[1][2]))
                  * Len(f.coordinates))
  ELSE Skip(f)

\* The rows of al[m] with dof >= 0.
RowsActive(m) == {i \in DOMAIN FormAl[m].dof : FormAl[m].dof[i] >= 0}

\* assemble_DG_vector_forms, one form.
DGVectorEntry(f, env) ==
  IF \/ f.areas[1] # H2D_DG_INNER_EDGE
     \/ env.isempty[f.i]
     \/ ScalingNegligible(f.scaling_factor)
  THEN Skip(f)
  ELSE Entry(f, Cardinality(RowsActive(f.i)), Cardinality(RowsActive(f.i)))

\* assemble_multicomponent_DG_vector_forms, one form.
McDGVectorEntry(f, env) ==
  IF f.areas[1] # H2D_DG_INNER_EDGE \/ ScalingNegligible(f.scaling_factor)
  THEN Skip(f)
  ELSE Entry(f, Cardinality(RowsActive(f.coordinates[1])),
                Cardinality(RowsActive(f.coordinates[1])) * Len(f.coordinates))

\* The lists of forms of a stage the functions are run on.
VfVolStages ==
  { << VForm(0, Tiny, <<HERMES_ANY>>), VForm(1, Tiny - 1, <<HERMES_ANY>>) >>,
    << VForm(1, -Tiny, <<"r1">>), VForm(0, Tiny, <<"r2">>), VForm(0, 0, <<"r1">>) >> }

MfVolMcStages ==
  { << McMForm(<< <<0, 0>>, <<1, 1>> >>, 1, Tiny, <<HERMES_ANY>>),
       McMForm(<< <<0, 1>> >>, 0, 0, <<HERMES_ANY>>) >>,
    << McMForm(<< <<0, 1>>, <<1, 0>> >>, 0, Tiny, <<"r1">>),
       McMForm(<< <<1, 1>> >>, 0, Tiny - 1, <<"r2", "r1">>),
       McMForm(<< <<1, 1>> >>, 0, Tiny, <<"r2">>) >> }

VfVolMcStages ==
  { << McVForm(<<0, 1>>, Tiny, <<HERMES_ANY>>), McVForm(<<1>>, Tiny - 1, <<"r1">>) >>,
    << McVForm(<<1, 0>>, Tiny, <<"r2">>), McVForm(<<0>>, 1 - Tiny, <<HERMES_ANY>>) >> }

MfSurfStages ==
  { << MForm(0, 0, 0, Tiny, <<HERMES_ANY>>), MForm(0, 1, 0, Tiny - 1, <<"b1">>),
       MForm(1, 1, 0, Tiny, <<H2D_DG_BOUNDARY_EDGE>>) >>,
    << MForm(1, 0, 0, -Tiny, <<"b2", "b1">>), MForm(0, 0, 0, Tiny, <<H2D_DG_INNER_EDGE>>),
       MForm(1, 1, 0, 0, <<H2D_DG_INNER_EDGE>>), MForm(0, 1, 0, Tiny - 1, <<H2D_DG_INNER_EDGE>>) >> }

VfSurfStages ==
  { << VForm(0, Tiny, <<HERMES_ANY>>), VForm(1, Tiny - 1, <<"b1">>),
       VForm(1, Tiny, <<H2D_DG_BOUNDARY_EDGE>>) >>,
    << VForm(1, -Tiny, <<"b2">>), VForm(0, Tiny, <<H2D_DG_INNER_EDGE>>),
       VForm(0, Tiny - 1, <<H2D_DG_INNER_EDGE>>) >> }

MfSurfMcStages ==
  { << McMForm(<< <<0, 0>>, <<1, 1>> >>, 0, Tiny, <<"b1">>),
       McMForm(<< <<1, 1>> >>, 0, Tiny - 1, <<HERMES_ANY>>),
       McMForm(<< <<0, 0>> >>, 0, Tiny, <<H2D_DG_BOUNDARY_EDGE>>) >>,
    << McMForm(<< <<0, 1>>, <<1, 0>> >>, 0, Tiny, <<H2D_DG_INNER_EDGE>>),
       McMForm(<< <<1, 1>> >>, 0, 1 - Tiny, <<H2D_DG_INNER_EDGE>>) >> }

VfSurfMcStages ==
  { << McVForm(<<0, 1>>, Tiny, <<"b2", "b1">>), McVForm(<<1>>, Tiny - 1, <<HERMES_ANY>>),
       McVForm(<<1>>, Tiny, <<H2D_DG_BOUNDARY_EDGE>>) >>,
    << McVForm(<<1, 0>>, Tiny, <<H2D_DG_INNER_EDGE>>),
       McVForm(<<0>>, 0, <<H2D_DG_INNER_EDGE>>) >> }

\* Some form of the list is a DG inner-edge form.
HasDG(stage) == \E k \in DOMAIN stage : stage[k].areas[1] = H2D_DG_INNER_EDGE

InitForms ==
  /\ SparseStart
  /\ wf_id = 1
  /\ VolIdle
  /\ AsmIdle
  /\ form_env \in { env \in [marker : {1, 2}, edge_marker : {1, 2},
                             nat : {[s \in Spaces |-> TRUE], [s \in Spaces |-> s = 0]},
                             isempty : {[s \in Spaces |-> FALSE], [s \in Spaces |-> s = 1]},
                             bw : VolTables, mat : BOOLEAN, rhs : BOOLEAN] :
                      env.mat \/ env.rhs }
  /\ form_log = NoLog
  /\ TreeIdle

\* The record of one function run on the list `stage`, given what each form
\* of the list did.
RunForms(kind, entries) == [kind |-> kind, entries |-> entries]

\* A vector function returns at once when rhs == NULL.
UnlessRhsNull(stage, entries) ==
  IF form_env.rhs THEN entries ELSE [k \in DOMAIN stage |-> Skip(stage[k])]

assemble_volume_matrix_forms ==
  /\ \E stage \in VolStages :
        form_log' = RunForms("mfvol",
            [k \in DOMAIN stage |-> VolMatrixEntry(stage[k], form_env)])
  /\ UNCHANGED <<form_env, varsSparse, varsVol, varsTree, varsAsm>>

assemble_multicomponent_volume_matrix_forms ==
  /\ \E stage \in MfVolMcStages :
        form_log' = RunForms("mfvol_mc",
            [k \in DOMAIN stage |-> WithDofs(McVolMatrixEntry(stage[k], form_env),
                                             McVolMatrixDofs(stage[k], form_env))])
  /\ UNCHANGED <<form_env, varsSparse, varsVol, varsTree, varsAsm>>

assemble_volume_vector_forms ==
  /\ \E stage \in VfVolStages :
        form_log' = RunForms("vfvol",
            UnlessRhsNull(stage, [k \in DOMAIN stage |-> VolVectorEntry(stage[k], form_env)]))
  /\ UNCHANGED <<form_env, varsSparse, varsVol, varsTree, varsAsm>>

assemble_multicomponent_volume_vector_forms ==
  /\ \E stage \in VfVolMcStages :
        form_log' = RunForms("vfvol_mc",
            [k \in DOMAIN stage |->
               WithDofs(UnlessRhsNull(stage, [l \in DOMAIN stage |->
                                                McVolVectorEntry(stage[l], form_env)])[k],
                        McVolVectorDofs(stage[k], form_env))])
  /\ UNCHANGED <<form_env, varsSparse, varsVol, varsTree, varsAsm>>

assemble_surface_matrix_forms ==
  /\ \E stage \in MfSurfStages :
        form_log' = RunForms("mfsurf",
            [k \in DOMAIN stage |-> SurfMatrixEntry(stage[k], form_env)])
  /\ UNCHANGED <<form_env, varsSparse, varsVol, varsTree, varsAsm>>

assemble_multicomponent_surface_matrix_forms ==
  /\ \E stage \in MfSurfMcStages :
        form_log' = RunForms("mfsurf_mc",
            [k \in DOMAIN stage |-> McSurfMatrixEntry(stage[k], form_env)])
  /\ UNCHANGED <<form_env, varsSparse, varsVol, varsTree, varsAsm>>

assemble_surface_vector_forms ==
  /\ \E stage \in VfSurfStages :
        form_log' = RunForms("vfsurf",
            UnlessRhsNull(stage, [k \in DOMAIN stage |-> SurfVectorEntry(stage[k], form_env)]))
  /\ UNCHANGED <<form_env, varsSparse, varsVol, varsTree, varsAsm>>

assemble_multicomponent_surface_vector_forms ==
  /\ \E stage \in VfSurfMcStages :
        form_log' = RunForms("vfsurf_mc",
            UnlessRhsNull(stage, [k \in DOMAIN stage |-> McSurfVectorEntry(stage[k], form_env)]))
  /\ UNCHANGED <<form_env, varsSparse, varsVol, varsTree, varsAsm>>

\* The DG functions are called from assemble_DG_one_neighbor, the matrix ones
\* when DG matrix forms are present, the vector ones when DG vector forms are
\* present and rhs != NULL.
assemble_DG_matrix_forms ==
  /\ \E stage \in MfSurfStages :
        /\ HasDG(stage)
        /\ form_log' = RunForms("dg_mfsurf",
            [k \in DOMAIN stage |-> DGMatrixEntry(stage[k], form_env)])
  /\ UNCHANGED <<form_env, varsSparse, varsVol, varsTree, varsAsm>>

assemble_multicomponent_DG_matrix_forms ==
  /\ \E stage \in MfSurfMcStages :
        /\ HasDG(stage)
        /\ form_log' = RunForms("dg_mfsurf_mc",
            [k \in DOMAIN stage |-> McDGMatrixEntry(stage[k], form_env)])
  /\ UNCHANGED <<form_env, varsSparse, varsVol, varsTree, varsAsm>>

assemble_DG_vector_forms ==
  /\ form_env.rhs
  /\ \E stage \in VfSurfStages :
        /\ HasDG(stage)
        /\ form_log' = RunForms("dg_vfsurf",
            [k \in DOMAIN stage |-> DGVectorEntry(stage[k], form_env)])
  /\ UNCHANGED <<form_env, varsSparse, varsVol, varsTree, varsAsm>>

assemble_multicomponent_DG_vector_forms ==
  /\ form_env.rhs
  /\ \E stage \in VfSurfMcStages :
        /\ HasDG(stage)
        /\ form_log' = RunForms("dg_vfsurf_mc",
            UnlessRhsNull(stage, [k \in DOMAIN stage |-> McDGVectorEntry(stage[k], form_env)]))
  /\ UNCHANGED <<form_env, varsSparse, varsVol, varsTree, varsAsm>>

\* The four lists of surface forms of a stage.
SurfStages ==
  { [mfsurf |-> a, mfsurf_mc |-> b, vfsurf |-> c, vfsurf_mc |-> d] :
      a \in MfSurfStages, b \in MfSurfMcStages \cup {<<>>},
      c \in VfSurfStages, d \in VfSurfMcStages \cup {<<>>} }

\* What a function did with each form of its list, under the function's name.
Tagged(fn, entries) ==
  [k \in DOMAIN entries |-> [fn |-> fn, f |-> entries[k].f,
                             evals |-> entries[k].evals, adds |-> entries[k].adds]]

\* The boundary functions as assemble_surface_integrals calls them.
BoundaryForms(stage, env) ==
  Tagged("mfsurf", [k \in DOMAIN stage.mfsurf |-> SurfMatrixEntry(stage.mfsurf[k], env)])
  \o (IF stage.mfsurf_mc # <<>>
      THEN Tagged("mfsurf_mc", [k \in DOMAIN stage.mfsurf_mc |->
                                  McSurfMatrixEntry(stage.mfsurf_mc[k], env)])
      ELSE <<>>)
  \o (IF env.rhs
      THEN Tagged("vfsurf", [k \in DOMAIN stage.vfsurf |->
                               SurfVectorEntry(stage.vfsurf[k], env)])
           \o (IF stage.vfsurf_mc # <<>>
               THEN Tagged("vfsurf_mc", [k \in DOMAIN stage.vfsurf_mc |->
                                           McSurfVectorEntry(stage.vfsurf_mc[k], env)])
               ELSE <<>>)
      ELSE <<>>)

\* assemble_DG_forms on an edge with one neighbor, through
\* assemble_DG_one_neighbor; `processed`: the neighbor is marked visited.
DGForms(stage, env, processed) ==
  LET mfp == DG_matrix_forms_present(stage)
      vfp == DG_vector_forms_present(stage)
  IN  IF ~vfp /\ processed THEN <<>>
      ELSE (IF mfp /\ ~processed
            THEN Tagged("dg_mfsurf", [k \in DOMAIN stage.mfsurf |->
                                        DGMatrixEntry(stage.mfsurf[k], env)])
                 \o (IF stage.mfsurf_mc # <<>>
                     THEN Tagged("dg_mfsurf_mc", [k \in DOMAIN stage.mfsurf_mc |->
                                                    McDGMatrixEntry(stage.mfsurf_mc[k], env)])
                     ELSE <<>>)
            ELSE <<>>)
           \o (IF vfp /\ env.rhs
               THEN Tagged("dg_vfsurf", [k \in DOMAIN stage.vfsurf |->
                                           DGVectorEntry(stage.vfsurf[k], env)])
                    \o (IF stage.vfsurf_mc # <<>>
                        THEN Tagged("dg_vfsurf_mc", [k \in DOMAIN stage.vfsurf_mc |->
                                                       McDGVectorEntry(stage.vfsurf_mc[k], env)])
                        ELSE <<>>)
               ELSE <<>>)

\* assemble_surface_integrals with the else of the dispatch left out: the
\* DG forms are assembled on every edge of a stage that has some.
SurfaceIntegrals_without_else(stage, env, bnd, processed) ==
  (IF bnd THEN BoundaryForms(stage, env) ELSE <<>>)
  \o (IF DG_vector_forms_present(stage) \/ DG_matrix_forms_present(stage)
      THEN DGForms(stage, env, processed)
      ELSE <<>>)

\* The dispatch of assemble_surface_integrals on one edge.
SurfaceIntegrals(stage, env, bnd, processed) ==
  IF bnd THEN BoundaryForms(stage, env)
  ELSE IF DG_vector_forms_present(stage) \/ DG_matrix_forms_present(stage)
  THEN DGForms(stage, env, processed)
  ELSE <<>>

assemble_surface_integrals ==
  /\ \E stage \in SurfStages, bnd \in BOOLEAN, processed \in BOOLEAN :
        /\ bnd => ~processed
        /\ form_log' = [kind |-> "surface_integrals", bnd |-> bnd,
                        entries |-> SurfaceIntegrals(stage, form_env, bnd, processed)]
  /\ UNCHANGED <<form_env, varsSparse, varsVol, varsTree, varsAsm>>

NextForms ==
  \/ assemble_volume_matrix_forms
  \/ assemble_multicomponent_volume_matrix_forms
  \/ assemble_volume_vector_forms
  \/ assemble_multicomponent_volume_vector_forms
  \/ assemble_surface_matrix_forms
  \/ assemble_multicomponent_surface_matrix_forms
  \/ assemble_surface_vector_forms
  \/ assemble_multicomponent_surface_vector_forms
  \/ assemble_DG_matrix_forms
  \/ assemble_multicomponent_DG_matrix_forms
  \/ assemble_DG_vector_forms
  \/ assemble_multicomponent_DG_vector_forms
  \/ assemble_surface_integrals

SpecForms == InitForms /\ [][NextForms]_vars

(***************************************************************************)
(* SpecTree: assemble_DG_forms on one inner edge, up to the check of the   *)
(* neighbor counts.  The multimesh tree is an arena of nodes: node 1 is    *)
(* the root, a son is the index of a node or NULL.  A NeighborSearch is a  *)
(* record of n_neighbors and its entries; entry k holds what the code      *)
(* keeps at index k - 1 of neighbors, neighbor_edges,                      *)
(* central_transformations (central_n_trans is the length of the path) and *)
(* neighbor_transformations.                                               *)
(***************************************************************************)
\* unsigned int arithmetic wraps around.  The values of the model stay far
\* below the modulus, which is 2^16 here to fit the integers of the model
\* checker; the wrap of "i += -1; i++" is the same for every modulus.
UIntRange == 2^16

UIntAdd(a, b) == (a + b) % UIntRange

\* NeighborNode::NeighborNode(parent, transformation)
NeighborNode(parent, transformation) ==
  [parent |-> parent, transformation |-> transformation,
   left_son |-> NULL, right_son |-> NULL]

\* new NeighborNode(NULL, 0)
Root == 1

RootOnly == [nodes |-> <<NeighborNode(NULL, 0)>>, err |-> FALSE]

\* insert_into_multimesh_tree without the check of the right son: a label
\* that differs from the left son's always gets a new right son.
RECURSIVE insert_into_multimesh_tree_unchecked(_, _, _)
insert_into_multimesh_tree_unchecked(t, node, transformations) ==
  IF t.err \/ Len(transformations) = 0 THEN t
  ELSE LET n == t.nodes[node]
           new == Len(t.nodes) + 1
           rest == Tail(transformations)
       IN  IF n.left_son = NULL /\ n.right_son = NULL
           THEN insert_into_multimesh_tree_unchecked(
                  [t EXCEPT !.nodes = Append([@ EXCEPT ![node].left_son = new],
                                             NeighborNode(node, transformations[1]))],
                  new, rest)
           ELSE IF t.nodes[n.left_son].transformation = transformations[1]
           THEN insert_into_multimesh_tree_unchecked(t, n.left_son, rest)
           ELSE insert_into_multimesh_tree_unchecked(
                  [t EXCEPT !.nodes = Append([@ EXCEPT ![node].right_son = new],
                                             NeighborNode(node, transformations[1]))],
                  new, rest)

\* insert_into_multimesh_tree(node, transformations, transformation_count);
\* err: error() was called.
RECURSIVE insert_into_multimesh_tree(_, _, _)
insert_into_multimesh_tree(t, node, transformations) ==
  IF t.err \/ Len(transformations) = 0 THEN t
  ELSE LET n == t.nodes[node]
           new == Len(t.nodes) + 1
           rest == Tail(transformations)
       IN  IF n.left_son = NULL /\ n.right_son = NULL
           THEN insert_into_multimesh_tree(
                  [t EXCEPT !.nodes = Append([@ EXCEPT ![node].left_son = new],
                                             NeighborNode(node, transformations[1]))],
                  new, rest)
           ELSE IF t.nodes[n.left_son].transformation = transformations[1]
           THEN insert_into_multimesh_tree(t, n.left_son, rest)
           ELSE IF n.right_son # NULL
           THEN IF t.nodes[n.right_son].transformation = transformations[1]
                THEN insert_into_multimesh_tree(t, n.right_son, rest)
                ELSE [t EXCEPT !.err = TRUE]
           ELSE insert_into_multimesh_tree(
                  [t EXCEPT !.nodes = Append([@ EXCEPT ![node].right_son = new],
                                             NeighborNode(node, transformations[1]))],
                  new, rest)

\* The loop over j of build_multimesh_tree, from entry j on.
RECURSIVE InsertNeighbors(_, _, _)
InsertNeighbors(t, ns, j) ==
  IF j > ns.n_neighbors THEN t
  ELSE InsertNeighbors(insert_into_multimesh_tree(t, Root, ns.entries[j].central),
                       ns, j + 1)

\* build_multimesh_tree, from record i on.
RECURSIVE build_multimesh_tree(_, _, _)
build_multimesh_tree(t, searches, i) ==
  IF i > Len(searches) THEN t
  ELSE LET ns == searches[i]
       IN  IF ns.n_neighbors = 1 /\ Len(ns.entries[1].central) = 0
           THEN build_multimesh_tree(t, searches, i + 1)
           ELSE build_multimesh_tree(InsertNeighbors(t, ns, 1), searches, i + 1)

\* find_node; NULL when error() is called.
RECURSIVE find_node(_, _, _)
find_node(transformations, node, nodes) ==
  IF Len(transformations) = 0 THEN node
  ELSE LET n == nodes[node]
       IN  IF n.left_son # NULL
              /\ nodes[n.left_son].transformation = transformations[1]
           THEN find_node(Tail(transformations), n.left_son, nodes)
           ELSE IF n.right_son # NULL
                   /\ nodes[n.right_son].transformation = transformations[1]
           THEN find_node(Tail(transformations), n.right_son, nodes)
           ELSE NULL

\* running_transformations.back()->push_back(x) and ...back()->pop_back()
BackPush(running, x) == [running EXCEPT ![Len(running)] = Append(@, x)]

BackPop(running) == [running EXCEPT ![Len(running)] = SubSeq(@, 1, Len(@) - 1)]

\* The label traverse_multimesh_subtree pushes onto the neighbor path.
NeighborLabel(transformation, edge_info, active_edge, mode) ==
  LET sides == IF mode = "HERMES_MODE_TRIANGLE" THEN 3 ELSE 4
      same == IF mode = "HERMES_MODE_TRIANGLE"
              THEN active_edge = transformation
              ELSE \/ active_edge = 0 /\ transformation \in {0, 6}
                   \/ active_edge = 1 /\ transformation \in {1, 4}
                   \/ active_edge = 2 /\ transformation \in {2, 7}
                   \/ active_edge = 3 /\ transformation \in {3, 5}
      next == (edge_info.local_num_of_edge + 1) % sides
  IN  IF same
      THEN (IF ~edge_info.orientation THEN edge_info.local_num_of_edge ELSE next)
      ELSE (IF edge_info.orientation THEN edge_info.local_num_of_edge ELSE next)

\* traverse_multimesh_subtree that completes the central path in a leaf but
\* not the neighbor path.
RECURSIVE traverse_multimesh_subtree_central_only(_, _, _, _, _, _)
traverse_multimesh_subtree_central_only(nodes, node, running, edge_info, active_edge, mode) ==
  LET n == nodes[node]
      label == NeighborLabel(n.transformation, edge_info, active_edge, mode)
  IN  IF n.left_son = NULL /\ n.right_son = NULL
      THEN LET c == running.central[Len(running.central)]
               nb == running.neighbor[Len(running.neighbor)]
           IN  [central |-> Append(BackPush(running.central, n.transformation), c),
                neighbor |-> Append(running.neighbor, nb)]
      ELSE LET down == [central |-> BackPush(running.central, n.transformation),
                        neighbor |-> BackPush(running.neighbor, label)]
               left == IF n.left_son # NULL
                       THEN traverse_multimesh_subtree_central_only(
                              nodes, n.left_son, down, edge_info, active_edge, mode)
                       ELSE down
               right == IF n.right_son # NULL
                        THEN traverse_multimesh_subtree_central_only(
                               nodes, n.right_son, left, edge_info, active_edge, mode)
                        ELSE left
           IN  [central |-> BackPop(right.central), neighbor |-> BackPop(right.neighbor)]

RECURSIVE traverse_multimesh_subtree(_, _, _, _, _, _)
traverse_multimesh_subtree(nodes, node, running, edge_info, active_edge, mode) ==
  LET n == nodes[node]
      label == NeighborLabel(n.transformation, edge_info, active_edge, mode)
  IN  IF n.left_son = NULL /\ n.right_son = NULL
      THEN LET c == running.central[Len(running.central)]
               nb == running.neighbor[Len(running.neighbor)]
           IN  [central |-> Append(BackPush(running.central, n.transformation), c),
                neighbor |-> Append(BackPush(running.neighbor, label), nb)]
      ELSE LET down == [central |-> BackPush(running.central, n.transformation),
                        neighbor |-> BackPush(running.neighbor, label)]
               left == IF n.left_son # NULL
                       THEN traverse_multimesh_subtree(nodes, n.left_son, down,
                                                       edge_info, active_edge, mode)
                       ELSE down
               right == IF n.right_son # NULL
                        THEN traverse_multimesh_subtree(nodes, n.right_son, left,
                                                        edge_info, active_edge, mode)
                        ELSE left
           IN  [central |-> BackPop(right.central), neighbor |-> BackPop(right.neighbor)]

\* NeighborSearch::delete_neighbor(position): the entry is removed, the
\* entries behind it move down by one and n_neighbors is decremented.
delete_neighbor(ns, position) ==
  [ns EXCEPT !.entries = SubSeq(@, 1, position) \o SubSeq(@, position + 2, Len(@)),
             !.n_neighbors = @ - 1]

\* The loop "Insert new neighbors" of update_ns_subtree, from index k on.
RECURSIVE InsertNewNeighbors(_, _, _, _)
InsertNewNeighbors(ns, old, running, k) ==
  IF k > Len(running.central) THEN ns
  ELSE InsertNewNeighbors(
         [ns EXCEPT !.entries = Append(@, [old EXCEPT !.central = running.central[k],
                                                      !.neighbor = running.neighbor[k]]),
                    !.n_neighbors = @ + 1],
         old, running, k + 1)

\* update_ns_subtree, without the removal of the entry that is replaced.
update_ns_subtree_keeps_entry(ns, nodes, node, ith_neighbor) ==
  LET n == nodes[node] IN
  IF n.left_son = NULL
  THEN [ns |-> ns, added |-> 0, err |-> n.right_son # NULL]
  ELSE LET old == ns.entries[ith_neighbor + 1]
           start == [central |-> <<old.central>>, neighbor |-> <<old.neighbor>>]
           left == traverse_multimesh_subtree(nodes, n.left_son, start, old.edge_info,
                                              ns.active_edge, ns.mode)
           right == IF n.right_son # NULL
                    THEN traverse_multimesh_subtree(nodes, n.right_son, left,
                                                    old.edge_info, ns.active_edge, ns.mode)
                    ELSE left
           found == [central |-> SubSeq(right.central, 1, Len(right.central) - 1),
                     neighbor |-> SubSeq(right.neighbor, 1, Len(right.neighbor) - 1)]
       IN  [ns |-> InsertNewNeighbors(ns, old, found, 1),
            added |-> UIntRange - 1, err |-> FALSE]

\* update_ns_subtree: the record after the call, the value returned (- 1 as
\* unsigned int) and whether error() was called.
update_ns_subtree(ns, nodes, node, ith_neighbor) ==
  LET n == nodes[node] IN
  IF n.left_son = NULL
  THEN [ns |-> ns, added |-> 0, err |-> n.right_son # NULL]
  ELSE LET old == ns.entries[ith_neighbor + 1]
           start == [central |-> <<old.central>>, neighbor |-> <<old.neighbor>>]
           left == traverse_multimesh_subtree(nodes, n.left_son, start, old.edge_info,
                                              ns.active_edge, ns.mode)
           right == IF n.right_son # NULL
                    THEN traverse_multimesh_subtree(nodes, n.right_son, left,
                                                    old.edge_info, ns.active_edge, ns.mode)
                    ELSE left
           found == [central |-> SubSeq(right.central, 1, Len(right.central) - 1),
                     neighbor |-> SubSeq(right.neighbor, 1, Len(right.neighbor) - 1)]
       IN  [ns |-> InsertNewNeighbors(delete_neighbor(ns, ith_neighbor), old, found, 1),
            added |-> UIntRange - 1, err |-> FALSE]

\* NeighborSearch::get_num_neighbors
get_num_neighbors(ns) == ns.n_neighbors

\* The raw neighbor lists.  The two sons of an element along its edge
\* `active_edge`, in the order of the edge.
EdgeSons(mode, active_edge) ==
  <<active_edge,
    (active_edge + 1) % (IF mode = "HERMES_MODE_TRIANGLE" THEN 3 ELSE 4)>>

Prefixed(l, paths) == [k \in DOMAIN paths |-> <<l>> \o paths[k]]

Reverse(seq) == [k \in DOMAIN seq |-> seq[Len(seq) + 1 - k]]

\* The central paths a mesh can have along the edge: the edge is not refined
\* (one neighbor, empty path), or each half of it is covered in turn.
RECURSIVE Covers(_, _)
Covers(sons, depth) ==
  IF depth = 0 THEN { << <<>> >> }
  ELSE { << <<>> >> } \cup
       { Prefixed(sons[1], a) \o Prefixed(sons[2], b) :
           a \in Covers(sons, depth - 1), b \in Covers(sons, depth - 1) }

Geometries ==
  { [mode |-> "HERMES_MODE_TRIANGLE", active_edge |-> 0],
    [mode |-> "HERMES_MODE_QUAD", active_edge |-> 1] }

\* The NeighborSearch of mesh m after init_neighbors, its neighbors having
\* the central paths `paths`: mesh 2 sees the edge in the other orientation,
\* and a single neighbor of it is larger than the central element.
RawSearch(m, g, paths) ==
  [n_neighbors |-> Len(paths), active_edge |-> g.active_edge, mode |-> g.mode,
   entries |-> [k \in DOMAIN paths |->
                  [central |-> paths[k],
                   neighbor |-> IF m = 2 /\ Len(paths) = 1 THEN <<g.active_edge>> ELSE <<>>,
                   neighbor_el |-> 10 * m + k,
                   edge_info |-> [local_num_of_edge |-> (g.active_edge + m) % 3,
                                  orientation |-> m = 2]]]]

\* The records mesh m can start with, refined at most `depth` times; the
\* list of mesh 3 may run against the edge.
RawOf(m, g, depth) ==
  UNION { {RawSearch(m, g, c)} \cup
          (IF m = 3 THEN {RawSearch(m, g, Reverse(c))} ELSE {}) :
            c \in Covers(EdgeSons(g.mode, g.active_edge), depth) }

\* Records that do not cover the edge: no neighbor at all, or a neighbor
\* along the first half of the edge only.
Incomplete(m, g) ==
  {RawSearch(m, g, <<>>)} \cup
  (IF m = 3 THEN {RawSearch(m, g, << <<EdgeSons(g.mode, g.active_edge)[1]>> >>)} ELSE {})

\* The neighbor_searches of a stage of three meshes, the third one refined
\* at most once along the edge.
RawSearches ==
  UNION { {<<a, b, c>> : a \in RawOf(1, g, MaxDepth) \cup Incomplete(1, g),
                         b \in RawOf(2, g, MaxDepth),
                         c \in RawOf(3, g, 1) \cup Incomplete(3, g)} :
          g \in Geometries }

InitTree ==
  /\ SparseStart
  /\ wf_id = 1
  /\ VolIdle
  /\ AsmIdle
  /\ FormsIdle
  /\ neighbor_searches \in RawSearches
  /\ raw_searches = neighbor_searches
  /\ multimesh_tree = RootOnly
  /\ dg_pc = [phase |-> "build", rec |-> 0, i |-> 0, n |-> 0, num_neighbors |-> 0,
              visited |-> FALSE, matrix_forms |-> FALSE, vector_forms |-> FALSE,
              assembled |-> <<>>]

\* build_multimesh_tree(root, neighbor_searches)
BuildMultimeshTree ==
  /\ dg_pc.phase = "build"
  /\ multimesh_tree' = build_multimesh_tree(multimesh_tree, neighbor_searches, 1)
  /\ dg_pc' = [dg_pc EXCEPT !.phase = IF multimesh_tree'.err THEN "error" ELSE "update",
                            !.rec = 1]
  /\ UNCHANGED <<neighbor_searches, raw_searches, varsSparse, varsVol, varsForms, varsAsm>>

\* update_neighbor_search(ns, root) is entered for record dg_pc.rec.
UpdateNeighborSearchBegin ==
  /\ dg_pc.phase = "update"
  /\ dg_pc' = [dg_pc EXCEPT !.phase = "loop", !.i = 0,
                            !.n = get_num_neighbors(neighbor_searches[dg_pc.rec])]
  /\ UNCHANGED <<neighbor_searches, raw_searches, multimesh_tree, varsSparse, varsVol, varsForms, varsAsm>>

\* One turn of the loop of update_neighbor_search.
UpdateNeighborSearchStep ==
  /\ dg_pc.phase = "loop"
  /\ dg_pc.i < dg_pc.n
  /\ LET ns == neighbor_searches[dg_pc.rec]
         node == find_node(ns.entries[dg_pc.i + 1].central, Root, multimesh_tree.nodes)
     IN  IF node = NULL
         THEN /\ dg_pc' = [dg_pc EXCEPT !.phase = "error"]
              /\ UNCHANGED neighbor_searches
         ELSE \E up \in {update_ns_subtree(ns, multimesh_tree.nodes, node, dg_pc.i)} :
                /\ neighbor_searches' = [neighbor_searches EXCEPT ![dg_pc.rec] = up.ns]
                /\ dg_pc' = [dg_pc EXCEPT
                               !.phase = IF up.err THEN "error" ELSE "loop",
                               !.i = UIntAdd(UIntAdd(dg_pc.i, up.added), 1),
                               !.n = UIntAdd(dg_pc.n, up.added)]
  /\ UNCHANGED <<raw_searches, multimesh_tree, varsSparse, varsVol, varsForms, varsAsm>>

\* update_neighbor_search returns; assemble_DG_forms compares the count of
\* the record with num_neighbors and goes on to the next record.
UpdateNeighborSearchEnd ==
  /\ dg_pc.phase = "loop"
  /\ dg_pc.i >= dg_pc.n
  /\ LET count == neighbor_searches[dg_pc.rec].n_neighbors
         num == IF dg_pc.num_neighbors = 0 THEN count ELSE dg_pc.num_neighbors
     IN  dg_pc' = [dg_pc EXCEPT
                     !.num_neighbors = num,
                     !.phase = IF count # num THEN "error"
                               ELSE IF dg_pc.rec = Len(neighbor_searches) THEN "neighbors"
                               ELSE "update",
                     !.rec = IF count = num /\ dg_pc.rec < Len(neighbor_searches)
                             THEN @ + 1 ELSE @]
  /\ UNCHANGED <<neighbor_searches, raw_searches, multimesh_tree, varsSparse, varsVol, varsForms, varsAsm>>

\* The loop over the neighbors of assemble_DG_forms from segment neighbor_i
\* on, with rhs present.  `visited`: the neighbor elements of the edge are all
\* marked visited (the edge was met from its other side before), else none
\* is.  neighbors.at(neighbor_i) is called on the records up to the first
\* with an unvisited neighbor and throws std::out_of_range on a record that
\* has no such entry; assemble_DG_one_neighbor then reads
\* neighbors[neighbor_i] of every record.
RECURSIVE DGNeighbors(_, _, _, _, _, _, _)
DGNeighbors(searches, neighbor_i, num_neighbors, visited, mf, vf, assembled) ==
  LET short(r) == neighbor_i >= Len(searches[r].entries)
      scanned == IF visited THEN DOMAIN searches ELSE {1}
      processed == visited
  IN  IF neighbor_i >= num_neighbors
      THEN [phase |-> "done", assembled |-> assembled]
      ELSE IF \E r \in scanned : short(r)
      THEN [phase |-> "out_of_range", assembled |-> assembled]
      ELSE IF ~vf /\ processed
      THEN DGNeighbors(searches, neighbor_i + 1, num_neighbors, visited, mf, vf, assembled)
      ELSE IF \E r \in DOMAIN searches : short(r)
      THEN [phase |-> "undefined", assembled |-> assembled]
      ELSE DGNeighbors(searches, neighbor_i + 1, num_neighbors, visited, mf, vf,
                       Append(assembled, [segment |-> neighbor_i,
                                          matrix |-> mf /\ ~processed,
                                          vector |-> vf]))

\* The rest of assemble_DG_forms: the stage has DG matrix forms, DG vector
\* forms or both.
AssembleDGNeighbors ==
  /\ dg_pc.phase = "neighbors"
  /\ \E mf \in BOOLEAN, vf \in BOOLEAN, visited \in BOOLEAN :
        /\ mf \/ vf
        /\ \E end \in {DGNeighbors(neighbor_searches, 0, dg_pc.num_neighbors,
                                   visited, mf, vf, <<>>)} :
              dg_pc' = [dg_pc EXCEPT !.phase = end.phase, !.assembled = end.assembled,
                                     !.matrix_forms = mf, !.vector_forms = vf,
                                     !.visited = visited]
  /\ UNCHANGED <<neighbor_searches, raw_searches, multimesh_tree, varsSparse, varsVol, varsForms, varsAsm>>

NextTree ==
  \/ BuildMultimeshTree
  \/ UpdateNeighborSearchBegin
  \/ UpdateNeighborSearchStep
  \/ UpdateNeighborSearchEnd
  \/ AssembleDGNeighbors

SpecTree == InitTree /\ [][NextTree]_vars

(***************************************************************************)
(* SpecInsert: insert_into_multimesh_tree called on its own, with any      *)
(* sequence of sub-element paths.                                          *)
(***************************************************************************)
\* The sub-element numbers a path is made of (sons of a triangle).
Labels == 0 .. 2

InsertPaths == UNION { [1 .. n -> Labels] : n \in 0 .. MaxDepth }

InitInsert ==
  /\ SparseStart
  /\ wf_id = 1
  /\ VolIdle
  /\ AsmIdle
  /\ FormsIdle
  /\ neighbor_searches = <<>>
  /\ raw_searches = <<>>
  /\ multimesh_tree = RootOnly
  /\ dg_pc = [phase |-> "insert", rec |-> 0, i |-> 0, n |-> 0, num_neighbors |-> 0,
              visited |-> FALSE, matrix_forms |-> FALSE, vector_forms |-> FALSE,
              assembled |-> <<>>]

\* insert_into_multimesh_tree(root, transformations, transformation_count);
\* error() ends the program.
InsertIntoMultimeshTree ==
  /\ dg_pc.phase = "insert"
  /\ dg_pc.i < MaxInserts
  /\ \E transformations \in InsertPaths :
        multimesh_tree' = insert_into_multimesh_tree(multimesh_tree, Root, transformations)
  /\ dg_pc' = [dg_pc EXCEPT !.i = @ + 1,
                            !.phase = IF multimesh_tree'.err THEN "error" ELSE "insert"]
  /\ UNCHANGED <<neighbor_searches, raw_searches, varsSparse, varsVol, varsForms, varsAsm>>

\* traverse_multimesh_tree(node, running_transformations).  The running
\* list is r.running; r.ub is set when back() or pop_back() is called on an
\* empty list, which the language leaves undefined.
RECURSIVE traverse_multimesh_tree(_, _, _)
TraverseSons(nodes, n, r) ==
  LET left == IF n.left_son # NULL
              THEN traverse_multimesh_tree(nodes, n.left_son, r) ELSE r
  IN  IF n.right_son # NULL
      THEN traverse_multimesh_tree(nodes, n.right_son, left) ELSE left

PopBack(r) ==
  IF r.ub \/ Len(r.running) = 0 THEN [r EXCEPT !.ub = TRUE]
  ELSE [r EXCEPT !.running = SubSeq(@, 1, Len(@) - 1)]

\* if(node->get_transformation() == 0): "If we are in the root."
is_root(n) == n.transformation = 0

traverse_multimesh_tree(nodes, node, r) ==
  LET n == nodes[node]
  IN  IF r.ub THEN r
      ELSE IF is_root(n) THEN PopBack(TraverseSons(nodes, n, r))
      ELSE IF Len(r.running) = 0 THEN [r EXCEPT !.ub = TRUE]
      ELSE IF n.left_son = NULL /\ n.right_son = NULL
      THEN LET new_neighbor_transformations == r.running[Len(r.running)]
           IN  [r EXCEPT !.running =
                  Append(BackPush(r.running, n.transformation),
                         new_neighbor_transformations)]
      ELSE LET down == TraverseSons(nodes, n,
                         [r EXCEPT !.running = BackPush(@, n.transformation)])
           IN  IF down.ub \/ Len(down.running) = 0
                  \/ Len(down.running[Len(down.running)]) = 0
               THEN [down EXCEPT !.ub = TRUE]
               ELSE [down EXCEPT !.running = BackPop(@)]

get_multimesh_neighbors_transformations(nodes) ==
  traverse_multimesh_tree(nodes, Root, [running |-> << <<>> >>, ub |-> FALSE])

\* get_multimesh_neighbors_transformations(root) on the tree built so far.
\* Undefined behaviour either ends the program or lets the call return the
\* list as it stood.
GetMultimeshNeighborsTransformations ==
  /\ dg_pc.phase = "insert"
  /\ \E r \in {get_multimesh_neighbors_transformations(multimesh_tree.nodes)} :
       \E phase \in IF r.ub THEN {"fault", "got"} ELSE {"got"} :
          dg_pc' = [dg_pc EXCEPT !.phase = phase, !.assembled = r.running]
  /\ UNCHANGED <<multimesh_tree, neighbor_searches, raw_searches,
                 varsSparse, varsVol, varsForms, varsAsm>>

NextInsert == InsertIntoMultimeshTree

SpecInsert == InitInsert /\ [][NextInsert]_vars

(***************************************************************************)
(* SpecTraverse: get_multimesh_neighbors_transformations called on any     *)
(* tree that calls of insert_into_multimesh_tree build.                    *)
(***************************************************************************)
NextTraverse ==
  \/ InsertIntoMultimeshTree
  \/ GetMultimeshNeighborsTransformations

SpecTraverse == InitInsert /\ [][NextTraverse]_vars

(***************************************************************************)
(* SpecStage: the loop over the stages of assemble(), the loop over the    *)
(* states of assemble_one_stage and assemble_one_state.  asm_log holds the *)
(* calls made since the finish() calls of the previous stage; the         *)
(* geometry cache and the maps of memoized functions are those of the      *)
(* DiscreteProblem object and live across the states.                      *)
(***************************************************************************)
\* g_max_quad, scaled down: the highest quadrature order.
g_max_quad == 2

\* The slots of cache_e and cache_jwt.
CacheSlots == 0 .. (g_max_quad + 1 + 4 * g_max_quad + 4) - 1

\* What a slot of cache_e holds: NULL, an entry computed under the
\* sub-element transform xf, a pointer to an entry that was freed, or
\* whatever the constructor left there.
NullEntry == [st |-> "null", xf |-> <<>>]

LiveEntry(xf) == [st |-> "live", xf |-> xf]

FreedEntry == [st |-> "freed", xf |-> <<>>]

UninitEntry == [st |-> "uninit", xf |-> <<>>]

\* DiscreteProblem::init_cache
init_cache == [i \in CacheSlots |-> NullEntry]

\* DiscreteProblem::delete_single_geom_cache(order)
delete_single_geom_cache(cache, order) ==
  IF cache[order].st # "null" THEN [cache EXCEPT ![order] = NullEntry] ELSE cache

\* DiscreteProblem::delete_cache without the two loops over the maps of the
\* variable-Jacobian functions.
delete_cache_geometry_only(cache, caches) ==
  [cache_e |-> [i \in CacheSlots |->
                  IF cache[i].st # "null" THEN FreedEntry ELSE cache[i]],
   assembling_caches |-> caches]

\* DiscreteProblem::delete_cache: the entries are freed and the pointers
\* kept; the two maps of the variable-Jacobian functions are cleared.
delete_cache(cache, caches) ==
  [cache_e |-> [i \in CacheSlots |->
                  IF cache[i].st # "null" THEN FreedEntry ELSE cache[i]],
   assembling_caches |-> [caches EXCEPT !.cache_fn_quads = {},
                                        !.cache_fn_triangles = {}]]

\* The loop of assemble_DG_forms that drops the geometry of the previous
\* neighbor.
DeleteGeometry(cache) ==
  [i \in CacheSlots |-> IF cache[i].st # "null" THEN NullEntry ELSE cache[i]]

\* DiscreteProblem::get_fn(fu, rm, order): the function is computed and
\* stored under its key unless the map of its kind holds the key.
get_fn(caches, fu, rm, order) ==
  IF rm.jac_const
  THEN LET key == <<256 - fu.shape, order, fu.transform, fu.shapeset, rm.inv_ref_map>>
       IN  IF rm.mode = "HERMES_MODE_TRIANGLE"
           THEN [caches EXCEPT !.const_cache_fn_triangles = @ \cup {key}]
           ELSE [caches EXCEPT !.const_cache_fn_quads = @ \cup {key}]
  ELSE LET key == <<256 - fu.shape, order, fu.transform, fu.shapeset>>
       IN  IF rm.mode = "HERMES_MODE_TRIANGLE"
           THEN [caches EXCEPT !.cache_fn_triangles = @ \cup {key}]
           ELSE [caches EXCEPT !.cache_fn_quads = @ \cup {key}]

\* Quad2D::get_edge_points(edge, order): the slot of the quadrature of
\* `order` along `edge`, behind the slots of the volume orders.
get_edge_points(edge, order) == g_max_quad + 1 + 4 * order + edge

\* eval_form_subelement on slot `slot` (an order, or an edge order): the
\* geometry is computed under the transform of ru unless the slot is set;
\* both shape functions go through get_fn.
eval_form_subelement(acc, slot, fu, fv, ru) ==
  [cache_e |-> IF acc.cache_e[slot].st = "null"
               THEN [acc.cache_e EXCEPT ![slot] = LiveEntry(ru.transform)]
               ELSE acc.cache_e,
   assembling_caches |-> get_fn(get_fn(acc.assembling_caches, fu, ru, slot), fv, ru, slot),
   reads |-> Append(acc.reads, [slot |-> slot, entry |-> IF acc.cache_e[slot].st = "null"
                                                         THEN LiveEntry(ru.transform)
                                                         ELSE acc.cache_e[slot],
                                active |-> ru.transform])]

\* The states Traverse::get_next_state can hand out.  e[i] is the element of
\* space i or NULL; `order` is the order the forms of the stage integrate
\* with on the state, 0 when no form is evaluated on it.
StageStates ==
  { [e |-> <<1, 1>>, mode |-> "HERMES_MODE_TRIANGLE", jac_const |-> TRUE,
     bnd |-> <<TRUE, FALSE, FALSE, FALSE>>, order |-> 1],
    [e |-> <<2, NULL>>, mode |-> "HERMES_MODE_QUAD", jac_const |-> FALSE,
     bnd |-> <<FALSE, FALSE, TRUE, FALSE>>, order |-> 2],
    [e |-> <<3, 3>>, mode |-> "HERMES_MODE_TRIANGLE", jac_const |-> FALSE,
     bnd |-> <<FALSE, TRUE, FALSE, FALSE>>, order |-> 1],
    [e |-> <<4, 4>>, mode |-> "HERMES_MODE_QUAD", jac_const |-> TRUE,
     bnd |-> <<TRUE, TRUE, FALSE, FALSE>>, order |-> 0],
    [e |-> <<NULL, NULL>>, mode |-> "HERMES_MODE_TRIANGLE", jac_const |-> TRUE,
     bnd |-> <<FALSE, FALSE, FALSE, FALSE>>, order |-> 0],
    [e |-> <<NULL, 5>>, mode |-> "HERMES_MODE_TRIANGLE", jac_const |-> FALSE,
     bnd |-> <<FALSE, FALSE, FALSE, FALSE>>, order |-> 2] }

\* No state has been handed out.
NoState ==
  [e |-> <<NULL, NULL>>, mode |-> "HERMES_MODE_TRIANGLE", jac_const |-> TRUE,
   bnd |-> <<FALSE, FALSE, FALSE, FALSE>>, order |-> 0]

\* Element::get_num_surf
get_num_surf(mode) == IF mode = "HERMES_MODE_TRIANGLE" THEN 3 ELSE 4

\* e[0]->get_num_surf() in assemble_one_state.  With e[0] == NULL the call
\* is undefined: the program stops there ("crash") or goes on with some
\* number.
NumSurfOutcomes(state) ==
  IF state.e[1] # NULL THEN {[crash |-> FALSE, n |-> get_num_surf(state.mode)]}
  ELSE {[crash |-> TRUE, n |-> 0], [crash |-> FALSE, n |-> 0], [crash |-> FALSE, n |-> 4]}

Event(ev, ss, st, isurf) == [ev |-> ev, ss |-> ss, st |-> st, isurf |-> isurf]

\* The shape function, reference map of a state.
StateFn(state) == [shape |-> 0, transform |-> <<>>, shapeset |-> 0]

StateRm(state) ==
  [jac_const |-> state.jac_const, mode |-> state.mode, transform |-> <<>>,
   inv_ref_map |-> IF state.e[1] # NULL THEN state.e[1] ELSE state.e[2]]

\* One form evaluation of the state on `slot`, when its forms integrate.
EvalOn(acc, state, slot) ==
  IF state.order = 0 THEN acc
  ELSE LET r == eval_form_subelement(
                  [cache_e |-> acc.cache_e, assembling_caches |-> acc.assembling_caches,
                   reads |-> <<>>],
                  slot, StateFn(state), StateFn(state), StateRm(state))
       IN  [acc EXCEPT !.cache_e = r.cache_e, !.assembling_caches = r.assembling_caches,
                       !.evals = @ + 1]

\* init_state: the representing element, NULL when every e[i] is NULL.
init_state(state) ==
  IF state.e[1] # NULL THEN state.e[1] ELSE state.e[2]

\* The volume part of assemble_one_state.
AssembleVolume(acc, state, stage, in, ss, st) ==
  LET a1 == [EvalOn(acc, state, state.order) EXCEPT
               !.log = Append(@, Event("volume_matrix_forms", ss, st, 0))]
      a2 == IF stage.mc
            THEN [a1 EXCEPT !.log = Append(@, Event("mc_volume_matrix_forms", ss, st, 0))]
            ELSE a1
      a3 == IF in.rhs
            THEN [EvalOn(a2, state, state.order) EXCEPT
                    !.log = Append(@, Event("volume_vector_forms", ss, st, 0))]
            ELSE a2
  IN  IF in.rhs /\ stage.mc
      THEN [a3 EXCEPT !.log = Append(@, Event("mc_volume_vector_forms", ss, st, 0))]
      ELSE a3

\* assemble_surface_integrals on edge isurf: boundary forms on a boundary
\* edge, else the DG forms when the stage has some.
AssembleSurface(acc, state, stage, ss, st, isurf) ==
  LET a1 == [acc EXCEPT !.log = Append(@, Event("surface_integrals", ss, st, isurf))]
      eo == get_edge_points(isurf, state.order)
  IN  IF state.bnd[isurf + 1] THEN EvalOn(a1, state, eo)
      ELSE IF stage.dg
      THEN EvalOn([a1 EXCEPT !.cache_e = DeleteGeometry(@)], state, eo)
      ELSE a1

\* The loop over the surfaces of assemble_one_state, from isurf on.
RECURSIVE AssembleSurfaces(_, _, _, _, _, _, _)
AssembleSurfaces(acc, state, stage, ss, st, isurf, num_surf) ==
  IF isurf >= num_surf THEN acc
  ELSE AssembleSurfaces(AssembleSurface(acc, state, stage, ss, st, isurf),
                        state, stage, ss, st, isurf + 1, num_surf)

\* neq, the number of equations: one AsmList per equation.
Neq == Cardinality(Spaces)

\* Marks that stop at the first space.
Marked_first_space_only(state, stage) ==
  IF stage.dg THEN {state.e[1]} \ {NULL} ELSE {}

\* Marks of init_state: the elements of the state, when the stage has DG
\* forms.
Marked(state, stage) ==
  IF stage.dg THEN {state.e[i] : i \in DOMAIN state.e} \ {NULL} ELSE {}

InitStage ==
  /\ SparseStart
  /\ wf_id = 1
  /\ VolIdle
  /\ FormsIdle
  /\ TreeIdle
  /\ asm_in \in [kind : {"assemble"}, mat : BOOLEAN, rhs : BOOLEAN, stages : 1 .. MaxStages]
  /\ asm_in.mat \/ asm_in.rhs
  /\ asm_pc = [at |-> "stages", ss |-> 0, st |-> 0, stage |-> [dg |-> FALSE, mc |-> FALSE],
               state |-> NoState, returned |-> FALSE, evals |-> 0]
  /\ asm_log = <<>>
  /\ al_count = 0
  /\ cache_e = [i \in CacheSlots |-> UninitEntry]
  /\ assembling_caches = [const_cache_fn_triangles |-> {}, const_cache_fn_quads |-> {},
                          cache_fn_triangles |-> {}, cache_fn_quads |-> {},
                          cache_fn_ord |-> {}]
  /\ el_visited = {}

\* assemble_one_stage is entered for stage ss: the DG flags are set from the
\* forms of the stage.  The log is cut to the finish() calls of the stage
\* before.
AssembleOneStage ==
  /\ asm_pc.at = "stages"
  /\ asm_pc.ss < asm_in.stages
  /\ \E dg \in BOOLEAN, mc \in BOOLEAN :
        asm_pc' = [asm_pc EXCEPT !.at = "states", !.st = 0,
                                 !.stage = [dg |-> dg, mc |-> mc],
                                 !.state = NoState, !.returned = FALSE]
  /\ asm_log' = Append(SelectSeq(asm_log, LAMBDA ev : ev.ev \in {"mat_finish", "rhs_finish"}),
                       Event("stage", asm_pc.ss, 0, 0))
  /\ UNCHANGED <<asm_in, al_count, cache_e, assembling_caches, el_visited,
                 varsSparse, varsVol, varsForms, varsTree>>

\* trav.get_next_state hands out a state and assemble_one_state runs on it.
AssembleOneState ==
  /\ asm_pc.at = "states"
  /\ asm_pc.st < MaxStates
  /\ \E state \in StageStates :
     \E num_surf \in NumSurfOutcomes(state) :
       LET ss == asm_pc.ss
           st == asm_pc.st
           start == [log |-> Append(asm_log, Event("init_state", ss, st, 0)),
                     cache_e |-> cache_e, assembling_caches |-> assembling_caches,
                     evals |-> 0]
       IN  IF init_state(state) = NULL
           THEN \* return without the deletes
                /\ asm_log' = start.log
                /\ al_count' = al_count + Neq
                /\ asm_pc' = [asm_pc EXCEPT !.st = @ + 1, !.state = state,
                                            !.returned = TRUE, !.evals = 0]
                /\ UNCHANGED <<cache_e, assembling_caches, el_visited>>
           ELSE \E vol \in {AssembleVolume([start EXCEPT !.cache_e = init_cache],
                                           state, asm_pc.stage, asm_in, ss, st)} :
                  /\ el_visited' = el_visited \cup Marked(state, asm_pc.stage)
                  /\ IF num_surf.crash
                     THEN /\ asm_log' = vol.log
                          /\ al_count' = al_count + Neq
                          /\ cache_e' = vol.cache_e
                          /\ assembling_caches' = vol.assembling_caches
                          /\ asm_pc' = [asm_pc EXCEPT !.at = "crashed", !.state = state,
                                                      !.returned = FALSE,
                                                      !.evals = vol.evals]
                     ELSE \E sur \in {AssembleSurfaces(vol, state, asm_pc.stage,
                                                       ss, st, 0, num_surf.n)} :
                          \E del \in {delete_cache(sur.cache_e, sur.assembling_caches)} :
                            /\ asm_log' = Append(sur.log, Event("delete_cache", ss, st, 0))
                            /\ al_count' = al_count
                            /\ cache_e' = del.cache_e
                            /\ assembling_caches' = del.assembling_caches
                            /\ asm_pc' = [asm_pc EXCEPT !.st = @ + 1, !.state = state,
                                                        !.returned = TRUE,
                                                        !.evals = sur.evals]
  /\ UNCHANGED <<asm_in, varsSparse, varsVol, varsForms, varsTree>>

\* trav.get_next_state returns NULL: finish() of the matrix and of the
\* vector, and the visited flags are taken back.
FinishStage ==
  /\ asm_pc.at = "states"
  /\ asm_log' = asm_log
                 \o (IF asm_in.mat THEN <<Event("mat_finish", asm_pc.ss, 0, 0)>> ELSE <<>>)
                 \o (IF asm_in.rhs THEN <<Event("rhs_finish", asm_pc.ss, 0, 0)>> ELSE <<>>)
  /\ el_visited' = IF asm_pc.stage.dg THEN {} ELSE el_visited
  /\ asm_pc' = [asm_pc EXCEPT !.at = "stages", !.ss = @ + 1, !.returned = FALSE]
  /\ UNCHANGED <<asm_in, al_count, cache_e, assembling_caches,
                 varsSparse, varsVol, varsForms, varsTree>>

\* The loop over the stages is over: assemble() returns.
AssembleReturn ==
  /\ asm_pc.at = "stages"
  /\ asm_pc.ss = asm_in.stages
  /\ asm_pc' = [asm_pc EXCEPT !.at = "done"]
  /\ UNCHANGED <<asm_in, asm_log, al_count, cache_e, assembling_caches, el_visited,
                 varsSparse, varsVol, varsForms, varsTree>>

NextStage ==
  \/ AssembleOneStage
  \/ AssembleOneState
  \/ FinishStage
  \/ AssembleReturn

SpecStage == InitStage /\ [][NextStage]_vars

(***************************************************************************)
(* SpecDG: the DG forms of the inner edges in one stage.  Two base         *)
(* elements side by side, each of 2 x 2 cells; each of the two meshes of   *)
(* the stage refines each base element on its own, so that Traverse hands  *)
(* out the union states and an inner edge falls into segments.             *)
(***************************************************************************)
Bases == 0 .. 1
\* The refinements of the left and of the right base element: none, into a
\* lower and an upper half, into a left and a right half.
Refinements == <<{"none", "h"}, {"none", "h", "v"}>>

\* The sons a refinement leaves active: 0 the element itself, 1 / 2 the
\* lower / upper half, 3 / 4 the left / right half.
Sons(refinement) ==
  CASE refinement = "none" -> {0}
    [] refinement = "h" -> {1, 2}
    [] refinement = "v" -> {3, 4}

\* An Element object: every mesh has its own elements (and visited flags).
ElementOf(mesh, base, son) == 100 * (mesh + 1) + 10 * base + son

\* The cells <<column, row>> an element covers.
Cells(el) ==
  LET base == (el % 100) \div 10
      son == el % 10
      xs == CASE son \in {0, 1, 2} -> {0, 1}
              [] son = 3 -> {0}
              [] son = 4 -> {1}
      ys == CASE son \in {0, 3, 4} -> {0, 1}
              [] son = 1 -> {0}
              [] son = 2 -> {1}
  IN  { <<2 * base + x, y>> : x \in xs, y \in ys }

AllCells == { <<x, y>> : x \in 0 .. 3, y \in 0 .. 1 }

\* for_all_active_elements of a mesh of the stage
ActiveElements(in, mesh) ==
  UNION { { ElementOf(mesh, base, son) : son \in Sons(in.refine[mesh + 1][base + 1]) } :
          base \in Bases }

\* The active element of `mesh` that covers `cell`.
ElementAt(in, mesh, cell) ==
  CHOOSE el \in ActiveElements(in, mesh) : cell \in Cells(el)

\* The states of the traversal of the union mesh: e[i] is the active element
\* of mesh i the state lies in.
UnionStates(in) ==
  { [e |-> <<e0, e1>>] :
      <<e0, e1>> \in { p \in ActiveElements(in, 0) \X ActiveElements(in, 1) :
                         Cells(p[1]) \cap Cells(p[2]) # {} } }

Region(state) == Cells(state.e[1]) \cap Cells(state.e[2])

\* The cell across edge isurf (0 bottom, 1 right, 2 top, 3 left).
Across(cell, isurf) ==
  CASE isurf = 0 -> <<cell[1], cell[2] - 1>>
    [] isurf = 1 -> <<cell[1] + 1, cell[2]>>
    [] isurf = 2 -> <<cell[1], cell[2] + 1>>
    [] isurf = 3 -> <<cell[1] - 1, cell[2]>>

\* The pieces <<cell, cell across>> of edge isurf of the state; none on a
\* boundary edge.
EdgePieces(state, isurf) ==
  { <<c, Across(c, isurf)>> :
      c \in { c \in Region(state) :
                Across(c, isurf) \in AllCells \ Region(state) } }

\* neighbor_searches.get(i)->neighbors of a piece: the element across, on
\* every mesh (the central element itself where the edge lies inside it).
NeighborsOf(in, piece) == [i \in 1 .. 2 |-> ElementAt(in, i - 1, piece[2])]

\* The segments neighbor_i of the edge after update_neighbor_search: the
\* pieces the same neighbors lie across.
Segments(in, state, isurf) ==
  { { p \in EdgePieces(state, isurf) : NeighborsOf(in, p) = NeighborsOf(in, q) } :
      q \in EdgePieces(state, isurf) }

\* A piece, whichever side it is seen from.
PieceKey(piece) == {piece[1], piece[2]}

AllPieces ==
  { {c, d} : <<c, d>> \in { p \in AllCells \X AllCells :
                              \E isurf \in 0 .. 3 : p[2] = Across(p[1], isurf) } }

\* The scan of assemble_DG_forms: the segment counts as processed when its
\* neighbor is visited on every mesh.
Processed(in, seg, visited) ==
  \A p \in seg : \A i \in 1 .. 2 : NeighborsOf(in, p)[i] \in visited

\* assemble_DG_forms on edge isurf: per segment, whether
\* assemble_DG_one_neighbor is called and which forms it assembles.
assemble_DG_forms(in, stage, state, isurf, visited, log) ==
  { [isurf |-> isurf, seg |-> seg,
     processed |-> Processed(in, seg, visited),
     called |-> ~(~stage.vf /\ Processed(in, seg, visited)),
     matrix |-> /\ ~(~stage.vf /\ Processed(in, seg, visited))
                /\ stage.mf /\ ~Processed(in, seg, visited),
     vector |-> /\ ~(~stage.vf /\ Processed(in, seg, visited))
                /\ stage.vf /\ in.rhs,
     before |-> { log[PieceKey(p)] : p \in seg }] :
      seg \in Segments(in, state, isurf) }

InitDG ==
  /\ SparseStart
  /\ wf_id = 1
  /\ VolIdle
  /\ FormsIdle
  /\ TreeIdle
  /\ asm_in \in [kind : {"dg"}, refine : [1 .. 2 -> Refinements[1] \X Refinements[2]],
                 rhs : BOOLEAN, stages : {MaxStages}]
  /\ asm_pc = [at |-> "stages", ss |-> 0, done |-> {}, last |-> {},
               stage |-> [dg |-> FALSE, mf |-> FALSE, vf |-> FALSE]]
  /\ asm_log = [s \in AllPieces |-> 0]
  /\ al_count = 0
  /\ cache_e = <<>>
  /\ assembling_caches = [const_cache_fn_triangles |-> {}, const_cache_fn_quads |-> {},
                          cache_fn_triangles |-> {}, cache_fn_quads |-> {},
                          cache_fn_ord |-> {}]
  /\ el_visited = {}

\* assemble_one_stage is entered: the DG flags are set from the surface
\* forms of the stage.
DGOneStage ==
  /\ asm_in.kind = "dg"
  /\ asm_pc.at = "stages"
  /\ asm_pc.ss < asm_in.stages
  /\ \E mf \in BOOLEAN, vf \in BOOLEAN :
        asm_pc' = [asm_pc EXCEPT !.at = "states", !.done = {}, !.last = {},
                                 !.stage = [dg |-> mf \/ vf, mf |-> mf, vf |-> vf]]
  /\ asm_log' = [s \in AllPieces |-> 0]
  /\ UNCHANGED <<asm_in, al_count, cache_e, assembling_caches, el_visited,
                 varsSparse, varsVol, varsForms, varsTree>>

\* assemble_one_state on a union state, as far as the inner edges go:
\* init_state marks the elements, then every inner edge runs
\* assemble_DG_forms when the stage has DG forms.
DGOneState ==
  /\ asm_in.kind = "dg"
  /\ asm_pc.at = "states"
  /\ \E state \in UnionStates(asm_in) \ asm_pc.done :
     \E marked \in {el_visited \cup Marked(state, asm_pc.stage)} :
     \E res \in { IF asm_pc.stage.dg
                  THEN UNION { assemble_DG_forms(asm_in, asm_pc.stage, state, isurf,
                                                 marked, asm_log) : isurf \in 0 .. 3 }
                  ELSE {} } :
       /\ el_visited' = marked
       /\ asm_log' = [s \in AllPieces |->
                        asm_log[s] + Cardinality({ r \in res :
                                        r.matrix /\ \E p \in r.seg : PieceKey(p) = s })]
       /\ asm_pc' = [asm_pc EXCEPT !.done = @ \cup {state}, !.last = res]
  /\ UNCHANGED <<asm_in, al_count, cache_e, assembling_caches,
                 varsSparse, varsVol, varsForms, varsTree>>

\* for_all_elements of a mesh: the active elements and their parents.
ElementsOfMesh(in, mesh) ==
  ActiveElements(in, mesh) \cup { ElementOf(mesh, base, 0) : base \in Bases }

\* The reset that stops behind the first mesh of the stage.
ResetVisited_first_mesh_only(in, stage, visited) ==
  IF stage.dg THEN visited \ ElementsOfMesh(in, 0) ELSE visited

\* The end of assemble_one_stage: visited = false on every element of every
\* mesh of the stage, when the stage has DG forms.
ResetVisited(in, stage, visited) ==
  IF stage.dg
  THEN visited \ UNION { ElementsOfMesh(in, mesh) : mesh \in 0 .. 1 }
  ELSE visited

\* Every state has been handed out: the visited flags of all elements of
\* the meshes are taken back when the stage has DG forms.
DGFinishStage ==
  /\ asm_in.kind = "dg"
  /\ asm_pc.at = "states"
  /\ asm_pc.done = UnionStates(asm_in)
  /\ el_visited' = ResetVisited(asm_in, asm_pc.stage, el_visited)
  /\ asm_pc' = [asm_pc EXCEPT !.at = "stages", !.ss = @ + 1, !.last = {}]
  /\ UNCHANGED <<asm_in, asm_log, al_count, cache_e, assembling_caches,
                 varsSparse, varsVol, varsForms, varsTree>>

NextDG ==
  \/ DGOneStage
  \/ DGOneState
  \/ DGFinishStage

SpecDG == InitDG /\ [][NextDG]_vars

(***************************************************************************)
(* SpecQuad: the matrix forms of one state are evaluated one after the     *)
(* other, with and without adaptive subdivision, in the volume and on the  *)
(* edges; cache_e lives from init_cache to delete_cache of the state.      *)
(***************************************************************************)
\* Transformable::push_transforms(transformable_entities, son)
push_transforms(f, son) == [f EXCEPT !.transform = Append(@, son)]

\* Where the form is evaluated: in the volume (surf_pos == NULL in the
\* volume overloads), or on edge surf_num.
SurfPositions ==
  {[vol |-> TRUE, surf_num |-> 0]} \cup {[vol |-> FALSE, surf_num |-> n] : n \in 0 .. 1}

\* The slot eval_form_subelement works on: `order` in the volume overload,
\* eo = quad->get_edge_points(surf_pos->surf_num, order) in the surface one.
SubelementSlot(surf_pos, order) ==
  IF surf_pos.vol THEN order ELSE get_edge_points(surf_pos.surf_num, order)

\* The first loop of eval_form_adaptive, from son sons_i on: the form on the
\* son, then delete_single_geom_cache(order_init + order_increase).
RECURSIVE EvalSons(_, _, _, _, _, _)
EvalSons(acc, surf_pos, order, fu, ru, sons_i) ==
  IF sons_i > 3 THEN acc
  ELSE LET a1 == eval_form_subelement(acc, SubelementSlot(surf_pos, order),
                                      push_transforms(fu, sons_i),
                                      push_transforms(fu, sons_i),
                                      push_transforms(ru, sons_i))
           a2 == [a1 EXCEPT !.cache_e = delete_single_geom_cache(@, order)]
       IN  EvalSons(a2, surf_pos, order, fu, ru, sons_i + 1)

\* eval_form_adaptive; `depth` more levels miss the tolerance.
RECURSIVE eval_form_adaptive(_, _, _, _, _, _, _)
RECURSIVE RecurseSons(_, _, _, _, _, _, _, _)
eval_form_adaptive(acc, surf_pos, order_init, order_increase, fu, ru, depth) ==
  LET order == order_init + order_increase
      a0 == [acc EXCEPT !.cache_e = delete_single_geom_cache(@, order)]
      a1 == EvalSons(a0, surf_pos, order, fu, ru, 0)
  IN  IF depth = 0 THEN a1
      ELSE RecurseSons(a1, surf_pos, order, order_increase, fu, ru, depth - 1, 0)

\* The second loop of eval_form_adaptive: the recursion into every son.
RecurseSons(acc, surf_pos, order, order_increase, fu, ru, depth, sons_i) ==
  IF sons_i > 3 THEN acc
  ELSE RecurseSons(eval_form_adaptive(acc, surf_pos, order, order_increase,
                                      push_transforms(fu, sons_i),
                                      push_transforms(ru, sons_i), depth),
                   surf_pos, order, order_increase, fu, ru, depth, sons_i + 1)

\* eval_form of a matrix form: one evaluation with the order of the form, or
\* the value on the whole element and then the subdivision.
eval_form_matrix(acc, form, surf_pos, fu, ru) ==
  LET first == eval_form_subelement(acc, SubelementSlot(surf_pos, form.order), fu, fu, ru)
  IN  IF ~form.adapt_eval THEN first
      ELSE eval_form_adaptive(first, surf_pos, form.order, form.adapt_order_increase,
                              fu, ru, form.depth)

\* The forms: `order` is the order calc_order_matrix_form_* finds, or
\* order_init; `depth` is how often the tolerance is missed.  No order goes
\* beyond g_max_quad.
QuadForms ==
  { f \in [adapt_eval : BOOLEAN, order : 0 .. g_max_quad,
           adapt_order_increase : 0 .. 1, depth : 0 .. MaxDepth - 1] :
      IF f.adapt_eval
      THEN f.order + (f.depth + 1) * f.adapt_order_increase <= g_max_quad
      ELSE f.adapt_order_increase = 0 /\ f.depth = 0 }

InitQuad ==
  /\ SparseStart
  /\ wf_id = 1
  /\ VolIdle
  /\ FormsIdle
  /\ TreeIdle
  /\ asm_in \in [kind : {"quad"}, mode : {"HERMES_MODE_TRIANGLE", "HERMES_MODE_QUAD"},
                 jac_const : BOOLEAN, e : {<<1, 1>>}]
  /\ asm_pc = [at |-> "forms", n |-> 0, surf_pos |-> [vol |-> TRUE, surf_num |-> 0],
               form |-> [adapt_eval |-> FALSE, order |-> 0, adapt_order_increase |-> 0,
                         depth |-> 0]]
  /\ asm_log = <<>>
  /\ al_count = 0
  /\ cache_e = init_cache
  /\ assembling_caches = [const_cache_fn_triangles |-> {}, const_cache_fn_quads |-> {},
                          cache_fn_triangles |-> {}, cache_fn_quads |-> {},
                          cache_fn_ord |-> {}]
  /\ el_visited = {}

\* eval_form on one more matrix form of the state; asm_log takes the reads
\* of cache_e of this evaluation.
EvalForm ==
  /\ asm_in.kind = "quad"
  /\ asm_pc.at = "forms"
  /\ asm_pc.n < MaxEvals
  /\ \E form \in QuadForms, surf_pos \in SurfPositions :
     \E r \in {eval_form_matrix([cache_e |-> cache_e, assembling_caches |-> assembling_caches,
                                 reads |-> <<>>],
                                       form, surf_pos, StateFn(asm_in), StateRm(asm_in))} :
       /\ cache_e' = r.cache_e
       /\ assembling_caches' = r.assembling_caches
       /\ asm_log' = r.reads
       /\ asm_pc' = [asm_pc EXCEPT !.n = @ + 1, !.form = form, !.surf_pos = surf_pos]
  /\ UNCHANGED <<asm_in, al_count, el_visited, varsSparse, varsVol, varsForms, varsTree>>

\* The state is over and the next one begins: delete_cache, then init_cache.
NextStateCache ==
  /\ asm_in.kind = "quad"
  /\ asm_pc.at = "forms"
  /\ asm_pc.n > 0
  /\ \E del \in {delete_cache(cache_e, assembling_caches)} :
       /\ cache_e' = init_cache
       /\ assembling_caches' = del.assembling_caches
  /\ asm_log' = <<>>
  /\ UNCHANGED <<asm_in, asm_pc, al_count, el_visited,
                 varsSparse, varsVol, varsForms, varsTree>>

NextQuad ==
  \/ EvalForm
  \/ NextStateCache

SpecQuad == InitQuad /\ [][NextQuad]_vars

(***************************************************************************)
(* SpecAdapt: one call of eval_form_adaptive and the calls below it, as a  *)
(* stack of frames.  Values of the form are integers in units of 1e-7.     *)
(***************************************************************************)
\* 1e-6, below which the sum of the sons counts as negligible.
Negligible == 10

\* The tolerances adapt_rel_error_tol, as fractions num / den.
Tolerances == {[num |-> 1, den |-> 100], [num |-> 1, den |-> 4]}

\* The values eval_form_subelement yields on the four sons.
SubValues ==
  { <<2, 2, 2, 3>>, <<25, 25, 25, 25>>, <<30, 20, 25, 24>>,
    <<100, -100, 50, -50>>, <<-25, -25, -25, -25>> }

\* The values result_init of the outermost call.
InitValues == {0, 100}

\* The values of adapt_order_increase of the form.
OrderIncreases == {1, 7}

\* The orders the form function yields before limit_order.
FormOrders == {0, g_max_quad + 1}

\* limit_order(order) of quadrature/limit_order.h: an order above the highest
\* order the quadrature tables of the element's mode hold is cut down to it.
limit_order(order) == IF order > g_max_quad THEN g_max_quad ELSE order

SumOfSons(subs_value) == subs_value[1] + subs_value[2] + subs_value[3] + subs_value[4]

\* The tolerance check with the negligible-value test left out.
returns_current_subelements_by_tolerance_only(result_current_subelements, result_init, tol) ==
  Abs(result_current_subelements - result_init) * tol.den
    < tol.num * Abs(result_current_subelements)

\* The tolerance checking of eval_form_adaptive: the sum of the sons is
\* returned when it is negligible, or when rel_error is below the tolerance.
returns_current_subelements(result_current_subelements, result_init, tol) ==
  IF Abs(result_current_subelements) < Negligible THEN TRUE
  ELSE Abs(result_current_subelements - result_init) * tol.den
         < tol.num * Abs(result_current_subelements)

\* A call of eval_form_adaptive that has not run yet.
AdaptiveFrame(order_init, result_init) ==
  [order_init |-> order_init, result_init |-> result_init, at |-> "called",
   order |-> order_init, sons |-> <<0, 0, 0, 0>>, subs_value |-> <<0, 0, 0, 0>>,
   sons_i |-> 0, result_recursion |-> 0, returns |-> 0, recursions |-> <<>>]

InitAdapt ==
  /\ SparseStart
  /\ wf_id = 1
  /\ VolIdle
  /\ FormsIdle
  /\ TreeIdle
  /\ asm_in \in [kind : {"adapt"}, adapt_rel_error_tol : Tolerances,
                 adapt_order_increase : OrderIncreases]
  /\ \E order_init \in {limit_order(o) : o \in FormOrders}, result_init \in InitValues :
        asm_pc = [at |-> "adaptive", stack |-> <<AdaptiveFrame(order_init, result_init)>>]
  /\ asm_log = <<>>
  /\ al_count = 0
  /\ cache_e = <<>>
  /\ assembling_caches = [const_cache_fn_triangles |-> {}, const_cache_fn_quads |-> {},
                          cache_fn_triangles |-> {}, cache_fn_quads |-> {},
                          cache_fn_ord |-> {}]
  /\ el_visited = {}

\* The first loop and the tolerance checking of the call on top of the
\* stack: the form on the four sons at order_init + order_increase.
AdaptiveSons ==
  /\ asm_in.kind = "adapt"
  /\ asm_pc.at = "adaptive"
  /\ LET n == Len(asm_pc.stack)
         top == asm_pc.stack[n]
     IN  /\ top.at = "called"
         /\ \E subs_value \in SubValues :
              asm_pc' = [asm_pc EXCEPT !.stack[n] =
                [top EXCEPT
                   !.order = top.order_init + asm_in.adapt_order_increase,
                   !.sons = subs_value,
                   !.subs_value = subs_value,
                   !.at = IF returns_current_subelements(SumOfSons(subs_value),
                                top.result_init, asm_in.adapt_rel_error_tol)
                          THEN "returned" ELSE "recursing",
                   !.returns = SumOfSons(subs_value)]]
  /\ UNCHANGED <<asm_in, asm_log, al_count, cache_e, assembling_caches, el_visited,
                 varsSparse, varsVol, varsForms, varsTree>>

\* The second loop: eval_form_adaptive is called on son sons_i.
AdaptiveRecurse ==
  /\ asm_in.kind = "adapt"
  /\ asm_pc.at = "adaptive"
  /\ Len(asm_pc.stack) < MaxAdapt
  /\ LET top == asm_pc.stack[Len(asm_pc.stack)]
     IN  /\ top.at = "recursing"
         /\ top.sons_i < 4
         /\ asm_pc' = [asm_pc EXCEPT !.stack =
              Append(@, AdaptiveFrame(top.order_init + asm_in.adapt_order_increase,
                                      top.subs_value[top.sons_i + 1]))]
  /\ UNCHANGED <<asm_in, asm_log, al_count, cache_e, assembling_caches, el_visited,
                 varsSparse, varsVol, varsForms, varsTree>>

\* The call on top of the stack returns: its value goes to subs_value[sons_i]
\* and to result_recursion of the caller, which returns result_recursion
\* behind its fourth son.
AdaptiveReturn ==
  /\ asm_in.kind = "adapt"
  /\ asm_pc.at = "adaptive"
  /\ LET n == Len(asm_pc.stack)
         top == asm_pc.stack[n]
     IN  /\ top.at = "returned"
         /\ IF n = 1
            THEN asm_pc' = [asm_pc EXCEPT !.at = "done"]
            ELSE LET caller == asm_pc.stack[n - 1]
                 IN  asm_pc' = [asm_pc EXCEPT !.stack =
                       [SubSeq(asm_pc.stack, 1, n - 1) EXCEPT ![n - 1] =
                          [caller EXCEPT
                             !.subs_value[caller.sons_i + 1] = top.returns,
                             !.result_recursion = @ + top.returns,
                             !.recursions = Append(@, top.returns),
                             !.sons_i = @ + 1,
                             !.at = IF caller.sons_i + 1 = 4
                                    THEN "returned" ELSE "recursing",
                             !.returns = IF caller.sons_i + 1 = 4
                                         THEN caller.result_recursion + top.returns
                                         ELSE @]]]
  /\ UNCHANGED <<asm_in, asm_log, al_count, cache_e, assembling_caches, el_visited,
                 varsSparse, varsVol, varsForms, varsTree>>

NextAdapt ==
  \/ AdaptiveSons
  \/ AdaptiveRecurse
  \/ AdaptiveReturn

SpecAdapt == InitAdapt /\ [][NextAdapt]_vars

(***************************************************************************)
(* SpecPrev: the loops that derive the functions of the previous iterate   *)
(* from u_ext, in the order-inference and the evaluation routines.  A      *)
(* solution is a positive number or NULL; the loops fill oi / prev, one    *)
(* slot for every solution from u_ext_offset on.                           *)
(***************************************************************************)
Solutions == 1 .. 2

\* The vectors u_ext of a call.
ExtVectors == UNION { [1 .. n -> Solutions \cup {NULL}] : n \in 0 .. 3 }

\* No function: prev[i] = NULL, or oi[i] = get_fn_ord(0).
NoFn == [index |-> -1, solution |-> NULL, fault |-> FALSE]

\* The function derived from u_ext[index]; the pointer is dereferenced, which
\* is a fault when it is NULL.
FnOf(u_ext, index) ==
  [index |-> index, solution |-> u_ext[index + 1], fault |-> u_ext[index + 1] = NULL]

\* The slots i of oi / prev: 0 .. prev_size - 1, none for an empty u_ext.
PrevSlots(u_ext, u_ext_offset) ==
  IF u_ext = <<>> THEN {} ELSE 0 .. (Len(u_ext) - u_ext_offset) - 1

\* eval_form_subelement (MatrixFormVol): prev[i] = init_fn(u_ext[i + mfv->u_ext_offset], order)
eval_form_subelement_prev(u_ext, u_ext_offset) ==
  [i \in PrevSlots(u_ext, u_ext_offset) |->
     IF u_ext[i + u_ext_offset + 1] # NULL THEN FnOf(u_ext, i + u_ext_offset) ELSE NoFn]

\* calc_order_matrix_form_vol: oi[i] = get_fn_ord(u_ext[i + u_ext_offset]->get_fn_order() + inc)
calc_order_matrix_form_vol_oi(u_ext, u_ext_offset) ==
  [i \in PrevSlots(u_ext, u_ext_offset) |->
     IF u_ext[i + u_ext_offset + 1] # NULL THEN FnOf(u_ext, i + u_ext_offset) ELSE NoFn]

\* calc_order_vector_form_surf: oi[i] = get_fn_ord(u_ext[i]->get_edge_fn_order(...) + inc)
calc_order_vector_form_surf_oi(u_ext, u_ext_offset) ==
  [i \in PrevSlots(u_ext, u_ext_offset) |->
     IF u_ext[i + u_ext_offset + 1] # NULL THEN FnOf(u_ext, i) ELSE NoFn]

\* calc_order_dg_matrix_form: oi[i] = init_ext_fn_ord(neighbor_searches.get(
\* u_ext[i]->get_mesh()->get_seq() - min_dg_mesh_seq), u_ext[i])
calc_order_dg_matrix_form_oi(u_ext, u_ext_offset) ==
  [i \in PrevSlots(u_ext, u_ext_offset) |->
     IF u_ext[i + u_ext_offset + 1] # NULL THEN FnOf(u_ext, i) ELSE NoFn]

\* eval_dg_form (MatrixFormSurf): prev[i] = neighbor_searches.get(
\* u_ext[i]->get_mesh()->get_seq() - min_dg_mesh_seq)->init_ext_fn(u_ext[i])
eval_dg_form_prev(u_ext, u_ext_offset) ==
  [i \in PrevSlots(u_ext, u_ext_offset) |->
     IF u_ext[i + u_ext_offset + 1] # NULL THEN FnOf(u_ext, i) ELSE NoFn]

InitPrev ==
  /\ SparseStart
  /\ wf_id = 1
  /\ VolIdle
  /\ FormsIdle
  /\ TreeIdle
  /\ asm_in \in { in \in [kind : {"prev"}, u_ext : ExtVectors, u_ext_offset : 0 .. 2] :
                     in.u_ext_offset <= Len(in.u_ext) }
  /\ asm_pc = [at |-> "prev", routine |-> "none", filled |-> <<>>]
  /\ asm_log = <<>>
  /\ al_count = 0
  /\ cache_e = <<>>
  /\ assembling_caches = [const_cache_fn_triangles |-> {}, const_cache_fn_quads |-> {},
                          cache_fn_triangles |-> {}, cache_fn_quads |-> {},
                          cache_fn_ord |-> {}]
  /\ el_visited = {}

\* A routine has filled oi / prev.
Filled(routine, filled) ==
  /\ asm_in.kind = "prev"
  /\ asm_pc' = [at |-> "prev", routine |-> routine, filled |-> filled]
  /\ UNCHANGED <<asm_in, asm_log, al_count, cache_e, assembling_caches, el_visited,
                 varsSparse, varsVol, varsForms, varsTree>>

EvalFormSubelement ==
  Filled("eval_form_subelement",
         eval_form_subelement_prev(asm_in.u_ext, asm_in.u_ext_offset))

CalcOrderMatrixFormVol ==
  Filled("calc_order_matrix_form_vol",
         calc_order_matrix_form_vol_oi(asm_in.u_ext, asm_in.u_ext_offset))

CalcOrderVectorFormSurf ==
  Filled("calc_order_vector_form_surf",
         calc_order_vector_form_surf_oi(asm_in.u_ext, asm_in.u_ext_offset))

CalcOrderDGMatrixForm ==
  Filled("calc_order_dg_matrix_form",
         calc_order_dg_matrix_form_oi(asm_in.u_ext, asm_in.u_ext_offset))

EvalDGForm ==
  Filled("eval_dg_form", eval_dg_form_prev(asm_in.u_ext, asm_in.u_ext_offset))

NextPrev ==
  \/ EvalFormSubelement
  \/ CalcOrderMatrixFormVol
  \/ CalcOrderVectorFormSurf
  \/ CalcOrderDGMatrixForm
  \/ EvalDGForm

SpecPrev == InitPrev /\ [][NextPrev]_vars

(***************************************************************************)
(* SpecSparse: assemble calls interleaved with changes of the spaces and   *)
(* of the weak form.                                                       *)
(***************************************************************************)
\* Something changed since the last call (change-sequences only grow).
Changed == call.sp # sp_cur \/ call.wf # wf_cur

Changes == sp_cur[0] + sp_cur[1] + wf_cur

InitSparse ==
  SparseStart /\ wf_id \in DOMAIN WeakForms /\ VolIdle /\ FormsIdle /\ TreeIdle /\ AsmIdle

\* A structural change of space i (refinement, renumbering).
ChangeSpace(i) ==
  /\ Changes < MaxChanges
  /\ sp_cur' = [sp_cur EXCEPT ![i] = @ + 1]
  /\ UNCHANGED <<wf_cur, wf_id, sp_seq, wf_seq, have_matrix,
                 mat_pattern, mat_alloc, rhs_size, built, call, varsVol, varsForms, varsTree, varsAsm>>

\* A change of the weak form (forms added or removed).
ChangeWeakForm(id) ==
  /\ Changes < MaxChanges
  /\ id # wf_id
  /\ wf_cur' = wf_cur + 1
  /\ wf_id' = id
  /\ UNCHANGED <<sp_cur, sp_seq, wf_seq, have_matrix,
                 mat_pattern, mat_alloc, rhs_size, built, call, varsVol, varsForms, varsTree, varsAsm>>

\* create_sparse_structure, reuse path: the sinks are zeroed.
ReuseStructure(matp, rhsp) ==
  /\ UNCHANGED <<sp_seq, wf_seq, have_matrix, mat_pattern, mat_alloc, rhs_size, built>>

\* create_sparse_structure, rebuild path.
RebuildStructure(matp, rhsp, fdb, bw) ==
  /\ have_matrix' = (have_matrix \/ matp)
  /\ mat_pattern' = IF matp THEN PatternTable(wf_id, fdb, bw, sp_cur) ELSE mat_pattern
  /\ mat_alloc' = (mat_alloc \/ matp)
  /\ rhs_size' = IF rhsp THEN get_num_dofs(sp_cur) ELSE rhs_size
  /\ sp_seq' = sp_cur
  /\ wf_seq' = wf_cur
  /\ built' = IF matp THEN [valid |-> TRUE, sp |-> sp_cur, wf |-> wf_cur,
                            fdb |-> fdb, bw |-> bw]
              ELSE built

\* The backend operations create_sparse_structure performs on the sinks.
StructureOps(reuse, matp, rhsp) ==
  IF reuse
  THEN (IF matp THEN {"mat.zero"} ELSE {}) \cup (IF rhsp THEN {"rhs.zero"} ELSE {})
  ELSE (IF matp THEN {"mat.free", "mat.prealloc", "mat.pre_add_ij", "mat.alloc"} ELSE {})
         \cup (IF rhsp THEN {"rhs.alloc"} ELSE {})

\* assemble(coeff_vec, mat, rhs, force_diagonal_blocks, add_dir_lift,
\* block_weights): the structure, then numeric assembly of every stage.
Assemble(matp, rhsp, fdb, bw) ==
  /\ matp \/ rhsp
  /\ IF is_up_to_date
     THEN ReuseStructure(matp, rhsp)
     ELSE RebuildStructure(matp, rhsp, fdb, bw)
  /\ call' = [path |-> IF is_up_to_date THEN "reuse" ELSE "rebuild",
              ops |-> StructureOps(is_up_to_date, matp, rhsp),
              mat |-> matp, rhs |-> rhsp,
              repeat |-> (call.path # "none" /\ call.aborted = "no"
                            /\ call.mat = matp /\ call.rhs = rhsp /\ ~Changed),
              mat_before |-> (call.mat_before \/ call.mat),
              sp |-> sp_cur, wf |-> wf_cur,
              added |-> (matp /\ TouchedTable(wf_id, bw, sp_cur) # {}),
              unregistered |-> IF matp THEN TouchedTable(wf_id, bw, sp_cur) \ mat_pattern'
                               ELSE {},
              aborted |-> "no", after_abort |-> call.aborted # "no"]
  /\ UNCHANGED <<sp_cur, wf_cur, wf_id, varsVol, varsForms, varsTree, varsAsm>>

\* assemble left by an exception inside create_sparse_structure, between
\* have_matrix = true and mat->alloc() (the allocations of al and meshes, the
\* traversal, the backend): the matrix is freed and holds the pairs registered
\* so far, the vector is not allocated and the change-sequences are not saved.
AssembleAbortedInDiscovery(fdb, bw) ==
  /\ ~is_up_to_date
  /\ have_matrix' = TRUE
  /\ \E registered \in {{}, PatternTable(wf_id, fdb, bw, sp_cur)} :
        mat_pattern' = registered
  /\ mat_alloc' = FALSE
  /\ built' = [built EXCEPT !.valid = FALSE]
  /\ call' = [NoCall EXCEPT !.path = "rebuild",
                            !.ops = {"mat.free", "mat.prealloc", "mat.pre_add_ij"},
                            !.mat = TRUE, !.mat_before = (call.mat_before \/ call.mat),
                            !.sp = sp_cur, !.wf = wf_cur,
                            !.aborted = "discovery",
                            !.after_abort = (call.aborted # "no")]
  /\ UNCHANGED <<sp_cur, wf_cur, wf_id, sp_seq, wf_seq, rhs_size,
                 varsVol, varsForms, varsTree, varsAsm>>

\* assemble left by an exception during numeric assembly (error() in a form
\* function or in assemble_DG_forms): create_sparse_structure has returned.
AssembleAbortedInNumeric(matp, rhsp, fdb, bw) ==
  /\ matp \/ rhsp
  /\ IF is_up_to_date
     THEN ReuseStructure(matp, rhsp)
     ELSE RebuildStructure(matp, rhsp, fdb, bw)
  /\ call' = [NoCall EXCEPT !.path = IF is_up_to_date THEN "reuse" ELSE "rebuild",
                            !.ops = StructureOps(is_up_to_date, matp, rhsp),
                            !.mat = matp, !.rhs = rhsp,
                            !.mat_before = (call.mat_before \/ call.mat),
                            !.sp = sp_cur, !.wf = wf_cur,
                            !.aborted = "numeric",
                            !.after_abort = (call.aborted # "no")]
  /\ UNCHANGED <<sp_cur, wf_cur, wf_id, varsVol, varsForms, varsTree, varsAsm>>

NextSparse ==
  \/ \E i \in Spaces : ChangeSpace(i)
  \/ \E id \in DOMAIN WeakForms : ChangeWeakForm(id)
  \/ \E matp \in BOOLEAN, rhsp \in BOOLEAN, fdb \in BOOLEAN, bw \in Tables :
       Assemble(matp, rhsp, fdb, bw)
  \/ \E fdb \in BOOLEAN, bw \in Tables : AssembleAbortedInDiscovery(fdb, bw)
  \/ \E matp \in BOOLEAN, rhsp \in BOOLEAN, fdb \in BOOLEAN, bw \in Tables :
       AssembleAbortedInNumeric(matp, rhsp, fdb, bw)

SpecSparse == InitSparse /\ [][NextSparse]_vars

Spec == SpecSparse

(***************************************************************************)
(* Properties of SpecSparse.                                               *)
(***************************************************************************)
\* C1: whenever create_sparse_structure takes the reuse path and zeroes the
\* matrix instead of rebuilding it, every space's change-sequence and the
\* weak form's change-sequence at the time of the call are the ones the
\* matrix pattern was last built with.
C1_ReuseOnlyWhileUnchanged ==
  (call.path = "reuse" /\ call.mat) =>
     (built.valid /\ call.sp = built.sp /\ call.wf = built.wf)

\* The operations of a call that only zeroes its sinks.
ZeroOps(matp, rhsp) ==
  (IF matp THEN {"mat.zero"} ELSE {}) \cup (IF rhsp THEN {"rhs.zero"} ELSE {})

\* C2 (as claimed): a call that follows a call with the same sinks (matrix
\* only, vector only, or both), with no change-sequence changed in between,
\* takes the reuse path: no free/prealloc/pre_add_ij/alloc, only zeroing.
C2_SecondCallReuses ==
  call.repeat => (call.path = "reuse" /\ call.ops = ZeroOps(call.mat, call.rhs))

\* C2 (amended): the same, for calls made after some call had the matrix
\* sink (in particular for two calls in a row that both have it).
C2_SecondCallReusesOnceMatrixSeen ==
  (call.repeat /\ call.mat_before) =>
     (call.path = "reuse" /\ call.ops = ZeroOps(call.mat, call.rhs))

\* C2 witness: a repeated call with both sinks that reused the structure.
C2_Witness ==
  call.repeat /\ call.mat /\ call.rhs /\ call.path = "reuse"

\* C4: every (row, col) pair numeric assembly adds a value to was registered
\* with pre_add_ij when the matrix pattern was last built.
C4_AddsOnlyToRegisteredPairs ==
  call.unregistered = {}

\* C5: when the pattern was built with a block-weight table in which block
\* (m, n) is negligible and not a forced diagonal block, no pair (row DOF of
\* space m, column DOF of space n) is registered.
C5_NegligibleBlockAbsent ==
  (built.valid /\ ~built.bw.null) =>
     \A p \in mat_pattern :
        ~BlockSkipped(built.fdb, built.bw, SpaceOfDof(p[1]), SpaceOfDof(p[2]))

(***************************************************************************)
(* Properties of SpecVol.                                                  *)
(***************************************************************************)
\* C3: a call with unchanged spaces, weak form and block weights leaves the
\* matrix with the same contents as the first call did, whatever the
\* uninitialised buffer held in either call.
C3_SecondCallSameContents ==
  (vol_ww = 0 /\ vol_calls >= 2) => gmat = vol_first

\* The form assembled last was symmetric on a diagonal block.
LastSym == vol_last.ran /\ vol_last.f.sym = 1 /\ vol_last.f.i = vol_last.f.j

\* The form assembled last was antisymmetric on an off-diagonal block.
LastAntisym == vol_last.ran /\ vol_last.f.sym < 0 /\ vol_last.f.i # vol_last.f.j

\* C6: the values a symmetric form on a diagonal block (sym == 1, m == n)
\* adds on the state are symmetric: what it accumulates at (dof_i, dof_j)
\* equals what it accumulates at (dof_j, dof_i), for DOFs >= 0.
C6_SymmetricContribution ==
  LastSym =>
     \A a, b \in PosDofs(vol_in.al[vol_last.f.i].dof) :
        vol_last.dir[<<a, b>>] = vol_last.dir[<<b, a>>]

\* C7: for an antisymmetric form coupling different spaces (sym < 0,
\* m # n) the block added at (rows of space n, columns of space m) is the
\* negated transpose of the block added at (rows of m, columns of n).
C7_AntisymmetricBlocks ==
  LastAntisym =>
     \A a \in PosDofs(vol_in.al[vol_last.f.i].dof),
        b \in PosDofs(vol_in.al[vol_last.f.j].dof) :
        vol_last.tra[<<b, a>>] = -vol_last.dir[<<a, b>>]

\* C7 witness: an antisymmetric off-diagonal form has added non-zero values
\* to both blocks.
C7_Witness ==
  /\ LastAntisym
  /\ vol_last.adds > 0
  /\ \E a \in PosDofs(vol_in.al[vol_last.f.i].dof),
        b \in PosDofs(vol_in.al[vol_last.f.j].dof) :
        vol_last.dir[<<a, b>>] # 0 /\ vol_last.tra[<<b, a>>] # 0

\* The value the form f computes for the local entry (i, j): the scaled
\* integral times both coefficients, 0 where a coefficient is negligible.
LocalEntry(f, al, bw, i, j) ==
  IF Abs(al[f.i].coef[i]) > Tiny /\ Abs(al[f.j].coef[j]) > Tiny
  THEN ScaleBlock(bw, f.i, f.j, eval_form(f, j, i) * al[f.j].coef[j] * al[f.i].coef[i])
  ELSE 0

\* C24: a volume matrix form that is not filtered out on the state inserts
\* its local block once (and its transposed block once where it has one),
\* and every local entry (i, j) with both DOFs >= 0 has added exactly its
\* computed value at (dof_i, dof_j): nothing is added twice and nothing that
\* the buffer held before is added.
C24_EveryEntryAddedOnce ==
  vol_last.ran =>
     LET f  == vol_last.f
         al == vol_in.al
     IN  /\ vol_last.adds = (IF f.i # f.j /\ f.sym # 0 THEN 2 ELSE 1)
         /\ \A i \in DOMAIN al[f.i].dof, j \in DOMAIN al[f.j].dof :
               (al[f.i].dof[i] >= 0 /\ al[f.j].dof[j] >= 0) =>
                  vol_last.dir[<<al[f.i].dof[i], al[f.j].dof[j]>>]
                    = LocalEntry(f, al, vol_in.bw, i, j)

(***************************************************************************)
(* Properties of SpecForms.                                                *)
(***************************************************************************)
\* The entries of the last run that evaluated their form or inserted values.
Active == {k \in DOMAIN form_log.entries :
             form_log.entries[k].evals > 0 \/ form_log.entries[k].adds > 0}

\* The functions run on a state (volume forms) and on a boundary edge.
VolKinds == {"mfvol", "mfvol_mc", "vfvol", "vfvol_mc"}

BoundaryKinds == {"mfsurf", "mfsurf_mc", "vfsurf", "vfsurf_mc"}

\* R contains HERMES_ANY, or the internal marker of a member of R is marker.
TaggedVol(R, marker) ==
  \E a \in Range(R) : a = HERMES_ANY \/ get_internal_marker(a) = marker

TaggedBoundary(R, marker) ==
  \E a \in Range(R) : a = HERMES_ANY \/ get_internal_boundary_marker(a) = marker

\* C8 (as claimed): a volume form (a boundary form) is evaluated on a state
\* (a boundary edge), or adds anything there, only if its areas contain
\* HERMES_ANY or the internal marker of one of them is the element's (the
\* edge's) marker.
C8_EvaluatedOnlyInRegion ==
  \A k \in Active :
     /\ form_log.kind \in VolKinds =>
          TaggedVol(form_log.entries[k].f.areas, form_env.marker)
     /\ form_log.kind \in BoundaryKinds =>
          TaggedBoundary(form_log.entries[k].f.areas, form_env.edge_marker)

\* C8 (amended): the same, a boundary form being evaluated also when its
\* areas contain H2D_DG_BOUNDARY_EDGE, which stands for every boundary edge.
C8_EvaluatedOnlyInRegionOrBoundaryEdge ==
  \A k \in Active :
     /\ form_log.kind \in VolKinds =>
          TaggedVol(form_log.entries[k].f.areas, form_env.marker)
     /\ form_log.kind \in BoundaryKinds =>
          \/ TaggedBoundary(form_log.entries[k].f.areas, form_env.edge_marker)
          \/ H2D_DG_BOUNDARY_EDGE \in Range(form_log.entries[k].f.areas)

\* C8 witness: a run of volume or boundary forms in which a form tagged to
\* markers only was evaluated and another form, with a scaling factor that is
\* not negligible, was left out for its areas.
C8_Witness ==
  /\ form_log.kind \in VolKinds \cup BoundaryKinds
  /\ \E k \in Active : HERMES_ANY \notin Range(form_log.entries[k].f.areas)
  /\ \E k \in DOMAIN form_log.entries :
        /\ k \notin Active
        /\ Abs(form_log.entries[k].f.scaling_factor) >= Tiny
        /\ form_log.kind \in VolKinds
        /\ ~TaggedVol(form_log.entries[k].f.areas, form_env.marker)

\* C9: a form of any kind whose |scaling_factor| < 1e-12 is never evaluated
\* and inserts nothing, on any state, edge or neighbor segment.
C9_NegligibleScalingNeverEvaluated ==
  \A k \in DOMAIN form_log.entries :
     Abs(form_log.entries[k].f.scaling_factor) < Tiny =>
        (form_log.entries[k].evals = 0 /\ form_log.entries[k].adds = 0)

\* C9 witness: a run in which a form with a negligible but non-zero scaling
\* factor was left out while another form of the list was evaluated.
C9_Witness ==
  /\ Active # {}
  /\ \E k \in DOMAIN form_log.entries :
        /\ form_log.entries[k].f.scaling_factor # 0
        /\ Abs(form_log.entries[k].f.scaling_factor) < Tiny
        /\ form_log.entries[k].evals = 0

(***************************************************************************)
(* Properties of SpecTree.                                                 *)
(***************************************************************************)
\* The leaves of the multimesh tree (the root, when it has no son).
TreeLeaves ==
  {k \in DOMAIN multimesh_tree.nodes :
     multimesh_tree.nodes[k].left_son = NULL /\ multimesh_tree.nodes[k].right_son = NULL}

\* The central paths of a record, in index order.
CentralPaths(ns) == [k \in DOMAIN ns.entries |-> ns.entries[k].central]

\* The raw central paths of a record are a prefix-free cover of the edge
\* under binary refinement: labels of the two sons along the edge, no path a
\* prefix of another, and the parts of the edge they stand for add up to it.
IsPrefix(p, q) == Len(p) <= Len(q) /\ SubSeq(q, 1, Len(p)) = p

RECURSIVE SumParts(_, _, _)
SumParts(paths, depth, k) ==
  IF k > Len(paths) THEN 0
  ELSE 2^(depth - Len(paths[k])) + SumParts(paths, depth, k + 1)

CoversEdge(ns) ==
  LET paths == CentralPaths(ns)
      sons == Range(EdgeSons(ns.mode, ns.active_edge))
  IN  /\ Len(paths) > 0
      /\ \A k \in DOMAIN paths : Range(paths[k]) \subseteq sons
      /\ \A j, k \in DOMAIN paths : j # k => ~IsPrefix(paths[j], paths[k])
      /\ SumParts(paths, MaxDepth + 1, 1) = 2^(MaxDepth + 1)

AllCoverEdge == \A m \in DOMAIN raw_searches : CoversEdge(raw_searches[m])

C12_NoInterruptedPatternReused ==
  (call.after_abort /\ call.mat /\ call.path = "reuse") => (mat_alloc /\ built.valid)

\* The root-to-leaf paths of the subtree below `node`, depth first, the left
\* son before the right son; `path` is the path of labels down to `node`.
RECURSIVE LeafPaths(_, _, _)
LeafPaths(nodes, node, path) ==
  LET n == nodes[node]
  IN  IF n.left_son = NULL /\ n.right_son = NULL THEN <<path>>
      ELSE (IF n.left_son = NULL THEN <<>>
            ELSE LeafPaths(nodes, n.left_son,
                           Append(path, nodes[n.left_son].transformation)))
           \o
           (IF n.right_son = NULL THEN <<>>
            ELSE LeafPaths(nodes, n.right_son,
                           Append(path, nodes[n.right_son].transformation)))

\* The raw list of a record covers the edge and follows it: of two entries
\* the earlier one takes the first son where their paths part.
RECURSIVE Before(_, _, _)
Before(p, q, sons) ==
  IF p[1] = q[1] THEN Before(Tail(p), Tail(q), sons)
  ELSE p[1] = sons[1] /\ q[1] = sons[2]

InEdgeOrder(ns) ==
  /\ CoversEdge(ns)
  /\ \A j, k \in DOMAIN ns.entries :
       j < k => Before(ns.entries[j].central, ns.entries[k].central,
                       EdgeSons(ns.mode, ns.active_edge))

\* C11: after reconciliation of raw lists that all follow the edge, the
\* central paths of every record, read in index order, are the depth-first
\* (left before right) enumeration of the root-to-leaf paths of the multimesh
\* tree, so entry k carries the same central path on every mesh.
C11_EntriesInDepthFirstOrder ==
  (/\ dg_pc.phase = "neighbors"
   /\ \A m \in DOMAIN raw_searches : InEdgeOrder(raw_searches[m])) =>
    \A m \in DOMAIN neighbor_searches :
       CentralPaths(neighbor_searches[m]) = LeafPaths(multimesh_tree.nodes, Root, <<>>)

\* C13: when the check of the neighbor counts has been passed (no fatal
\* error), all records report the same neighbor count, a count of 0 included;
\* DG forms are assembled for a segment only then.
C13_MismatchRaisesError ==
  (dg_pc.phase \in {"neighbors", "out_of_range", "undefined", "done"}) =>
    \A m, o \in DOMAIN neighbor_searches :
       neighbor_searches[m].n_neighbors = neighbor_searches[o].n_neighbors

\* C13, second half: no DG form is assembled for the edge while the records
\* report different neighbor counts.
C13_NoFormOnMismatch ==
  dg_pc.assembled # <<>> =>
    \A m, o \in DOMAIN neighbor_searches :
       neighbor_searches[m].n_neighbors = neighbor_searches[o].n_neighbors

\* The sons of a node as the parent pointers give them.
Kids(nodes, n) == {k \in DOMAIN nodes : nodes[k].parent = n}

TreeShape(nodes) ==
  \A n \in DOMAIN nodes :
     /\ Cardinality(Kids(nodes, n)) <= 2
     /\ Kids(nodes, n) = {nodes[n].left_son, nodes[n].right_son} \ {NULL}
     /\ nodes[n].right_son # NULL => nodes[n].left_son # NULL
     /\ \A k1, k2 \in Kids(nodes, n) :
           k1 # k2 => nodes[k1].transformation # nodes[k2].transformation

StateEvents(ss, st) ==
  SelectSeq(asm_log, LAMBDA ev : ev.ss = ss /\ ev.st = st /\
                                 ev.ev \notin {"stage", "mat_finish", "rhs_finish"})

EventNames(events) == [k \in DOMAIN events |-> events[k].ev]

\* What a state with an element goes through: init_state, the volume
\* matrix forms, the volume vector forms, the surface forms of the edges
\* 0 .. n - 1 of its element, the deletion of the cache.
FullPass(names, mc, n) ==
  names = <<"init_state", "volume_matrix_forms">>
          \o (IF mc THEN <<"mc_volume_matrix_forms">> ELSE <<>>)
          \o <<"volume_vector_forms">>
          \o (IF mc THEN <<"mc_volume_vector_forms">> ELSE <<>>)
          \o [k \in 1 .. n |-> "surface_integrals"]
          \o <<"delete_cache">>

\* The positions of the log, as a set.
LogAt(names) == {k \in DOMAIN asm_log : asm_log[k].ev \in names}

\* C15: in a call with a matrix and a vector, the state that has run last,
\* when it holds an element, has gone through init_state, the volume
\* matrix forms, the volume vector forms, the surface forms of each edge of
\* its element and the deletion of the cache, in this order; the log of a
\* stage starts with at most one finish() of the matrix and one of the
\* vector, those of the stage before, and every call made for a state
\* comes after them.
C15_StatesInOrderFinishOncePerStage ==
  (asm_in.kind = "assemble" /\ asm_in.mat /\ asm_in.rhs) =>
    /\ (((asm_pc.at = "states" /\ asm_pc.st > 0) \/ asm_pc.at = "crashed")
          /\ init_state(asm_pc.state) # NULL) =>
         /\ asm_pc.at = "states"
         /\ FullPass(EventNames(StateEvents(asm_pc.ss, asm_pc.st - 1)), asm_pc.stage.mc,
                     get_num_surf(asm_pc.state.mode))
    /\ \A ss \in 0 .. asm_in.stages :
         /\ Cardinality({k \in LogAt({"mat_finish"}) : asm_log[k].ss = ss}) <= 1
         /\ Cardinality({k \in LogAt({"rhs_finish"}) : asm_log[k].ss = ss}) <= 1
    /\ \A k \in LogAt({"mat_finish", "rhs_finish"}) :
         \A j \in DOMAIN asm_log :
            /\ (asm_log[j].ss < asm_log[k].ss => j < k)
            /\ (asm_log[j].ss > asm_log[k].ss => j > k)
            /\ (asm_log[j].ss = asm_log[k].ss /\
                asm_log[j].ev \notin {"mat_finish", "rhs_finish"}) => j < k
    /\ (asm_pc.at = "states" /\ asm_pc.ss > 0) =>
         /\ Cardinality({k \in LogAt({"mat_finish"}) : asm_log[k].ss = asm_pc.ss - 1}) = 1
         /\ Cardinality({k \in LogAt({"rhs_finish"}) : asm_log[k].ss = asm_pc.ss - 1}) = 1

\* C16: when assemble_one_state has returned, by whichever exit, as many
\* assembly lists are live as before the call: none.
C16_AssemblyListsReleased ==
  (asm_in.kind = "assemble" /\ asm_pc.at # "crashed") => al_count = 0

\* No geometry / Jacobian-weight entry is live.
NoGeometryEntry == \A i \in DOMAIN cache_e : cache_e[i].st # "live"

DGKinds == {"dg_mfsurf", "dg_mfsurf_mc", "dg_vfsurf", "dg_vfsurf_mc"}

\* C17: on an edge with bnd == true every form evaluated is a boundary form
\* (its first area is not H2D_DG_INNER_EDGE) run by a boundary function; on
\* an edge with bnd == false every form evaluated is a DG inner-edge form
\* run by a DG function.
C17_SurfaceDispatchExclusive ==
  form_log.kind = "surface_integrals" =>
    \A k \in Active :
       IF form_log.bnd
       THEN /\ form_log.entries[k].fn \in BoundaryKinds
            /\ form_log.entries[k].f.areas[1] # H2D_DG_INNER_EDGE
       ELSE /\ form_log.entries[k].fn \in DGKinds
            /\ form_log.entries[k].f.areas[1] = H2D_DG_INNER_EDGE

\* An inner edge of a stage that also has a boundary form for every edge:
\* a DG form was evaluated, the boundary form was not.
C17_Witness ==
  /\ form_log.kind = "surface_integrals"
  /\ ~form_log.bnd
  /\ Active # {}
  /\ \E k \in DOMAIN form_log.entries :
        /\ k \notin Active
        /\ form_log.entries[k].f.areas[1] = H2D_DG_BOUNDARY_EDGE
        /\ Abs(form_log.entries[k].f.scaling_factor) >= Tiny

(***************************************************************************)
(* Properties of SpecDG                                                    *)
(***************************************************************************)
\* C18: within one stage the DG matrix forms of no piece of an inner edge
\* are assembled twice: a state that meets a segment whose DG matrix forms
\* were assembled from the other side finds its neighbors visited on every
\* mesh and assembles no DG matrix form on it.
C18_SegmentMatrixFormsAtMostOnce ==
  asm_in.kind = "dg" =>
    /\ \A s \in AllPieces : asm_log[s] <= 1
    /\ \A r \in asm_pc.last : (\E n \in r.before : n >= 1) => (r.processed /\ ~r.matrix)

\* A state has met a segment assembled from the other side, in a stage with
\* DG matrix forms, on an edge that falls into two segments.
C18_Witness ==
  /\ asm_in.kind = "dg"
  /\ asm_pc.stage.mf
  /\ \E r \in asm_pc.last :
        /\ r.before = {1}
        /\ r.processed
        /\ ~r.matrix
        /\ \E q \in asm_pc.last : q.isurf = r.isurf /\ q.seg # r.seg

(***************************************************************************)
(* Properties of SpecQuad                                                  *)
(***************************************************************************)
\* The read of cache_e was of an entry computed under the transform that
\* was active at the read.
ReadUnderActiveTransform(read) ==
  read.entry.st = "live" /\ read.entry.xf = read.active

\* C20: every entry of cache_e (and of cache_jwt) a form evaluation reads
\* was computed under the sub-element transform active at the read; in the
\* adaptive subdivision of volume forms and of surface forms no son reads
\* the entry of a sibling or of the parent.
C20_GeometryReadUnderActiveTransform ==
  asm_in.kind = "quad" =>
    \A k \in DOMAIN asm_log : ReadUnderActiveTransform(asm_log[k])

\* The same for the forms evaluated in the volume only.
C20_VolumeReadsUnderActiveTransform ==
  (asm_in.kind = "quad" /\ asm_pc.surf_pos.vol) =>
    \A k \in DOMAIN asm_log : ReadUnderActiveTransform(asm_log[k])

\* C22: when assemble_one_stage returns for a stage with a DG form, no
\* element of any mesh of the stage is marked visited.
C22_NoElementVisitedAfterDGStage ==
  (asm_in.kind = "dg" /\ asm_pc.at = "stages" /\ asm_pc.ss > 0 /\ asm_pc.stage.dg) =>
    \A mesh \in 0 .. 1 : ElementsOfMesh(asm_in, mesh) \cap el_visited = {}

\* A stage with a DG form has returned after init_state marked the elements
\* of several union states, on a mesh that is refined.
C22_Witness ==
  /\ asm_in.kind = "dg"
  /\ asm_pc.at = "stages"
  /\ asm_pc.ss > 0
  /\ asm_pc.stage.dg
  /\ Cardinality(asm_pc.done) > 2
  /\ el_visited = {}

\* The pieces of the inner edges of the union mesh.
InnerPieces(in) ==
  { PieceKey(p) : p \in UNION { EdgePieces(state, isurf) :
                                  state \in UnionStates(in), isurf \in 0 .. 3 } }

\* C25: when a stage with DG matrix forms and no DG vector forms has
\* returned, every piece of every inner edge of the union mesh has had its
\* DG matrix forms assembled from one of its sides.
C25_EverySegmentAssembled ==
  (/\ asm_in.kind = "dg"
   /\ asm_pc.at = "stages"
   /\ asm_pc.ss > 0
   /\ asm_pc.stage.mf
   /\ ~asm_pc.stage.vf) =>
    \A s \in InnerPieces(asm_in) : asm_log[s] >= 1

(***************************************************************************)
(* Properties of SpecAdapt                                                 *)
(***************************************************************************)
\* The sum of the four sons is below 1e-6 in absolute value, or differs from
\* the coarse value by less than the tolerance, relative to the sum.
SumAccepted(frame) ==
  LET sum == frame.sons[1] + frame.sons[2] + frame.sons[3] + frame.sons[4]
      diff == IF sum >= frame.result_init THEN sum - frame.result_init
              ELSE frame.result_init - sum
      size == IF sum >= 0 THEN sum ELSE -sum
  IN  \/ size < 10
      \/ diff * asm_in.adapt_rel_error_tol.den < size * asm_in.adapt_rel_error_tol.num

\* C21: a call of eval_form_adaptive evaluates the four sons at order_init +
\* adapt_order_increase; it returns their sum without recursion exactly when
\* the sum is negligible or within the tolerance of the coarse value;
\* otherwise it calls itself on every son, with the value of the son as the
\* coarse value and the increased order, and returns the sum of the four
\* results.  Nothing else ends the recursion.
C21_AdaptiveRecursion ==
  asm_in.kind = "adapt" =>
    /\ \A k \in DOMAIN asm_pc.stack :
         LET frame == asm_pc.stack[k]
             sum == frame.sons[1] + frame.sons[2] + frame.sons[3] + frame.sons[4]
         IN  /\ frame.at # "called" =>
                  frame.order = frame.order_init + asm_in.adapt_order_increase
             /\ (frame.at = "returned" /\ frame.recursions = <<>>) =>
                  (SumAccepted(frame) /\ frame.returns = sum)
             /\ (frame.at = "recursing" \/ frame.recursions # <<>>) => ~SumAccepted(frame)
             /\ (frame.at = "returned" /\ frame.recursions # <<>>) =>
                  /\ Len(frame.recursions) = 4
                  /\ frame.returns = frame.recursions[1] + frame.recursions[2]
                                     + frame.recursions[3] + frame.recursions[4]
             /\ k > 1 =>
                  LET caller == asm_pc.stack[k - 1]
                  IN  /\ caller.at = "recursing"
                      /\ frame.order_init = caller.order
                      /\ frame.result_init = caller.sons[caller.sons_i + 1]

\* A call that recursed into its four sons has returned, and one of the
\* recursive results differs from the value of the son it started from.
C21_Witness ==
  /\ asm_in.kind = "adapt"
  /\ asm_in.adapt_order_increase = 1
  /\ asm_pc.at = "done"
  /\ Len(asm_pc.stack[1].recursions) = 4
  /\ asm_pc.stack[1].subs_value # asm_pc.stack[1].sons

(***************************************************************************)
(* More properties of SpecTree                                             *)
(***************************************************************************)
\* The turn of the loop of update_neighbor_search that is about to run finds
\* the node of entry dg_pc.i.
SubtreeStep ==
  /\ dg_pc.phase = "loop"
  /\ dg_pc.i < dg_pc.n
  /\ find_node(neighbor_searches[dg_pc.rec].entries[dg_pc.i + 1].central, Root,
               multimesh_tree.nodes) # NULL

C28_OnePathPerLeaf ==
  (dg_pc.phase = "got" /\ multimesh_tree.nodes[Root].left_son # NULL)
    => dg_pc.assembled = LeafPaths(multimesh_tree.nodes, Root, <<>>)

(***************************************************************************)
(* More properties of SpecSparse                                           *)
(***************************************************************************)
\* C26: a sink that a call zeroes or adds to has been allocated by a build
\* made for the change-sequences of that call: the vector by rhs->alloc(ndof)
\* with the current number of DOFs, the matrix by a completed build of the
\* pattern.  A sink passed for the first time to a call on the reuse path is
\* therefore not used unallocated.
C26_SinksAllocatedForGeneration ==
  (call.path # "none" /\ call.aborted # "discovery") =>
     /\ call.rhs => rhs_size = get_num_dofs(call.sp)
     /\ call.mat => /\ mat_alloc
                    /\ built.valid
                    /\ built.sp = call.sp
                    /\ built.wf = call.wf

(***************************************************************************)
(* More properties of SpecAdapt                                            *)
(***************************************************************************)
\* C27: the order a call of eval_form_adaptive hands to eval_form_subelement
\* and delete_single_geom_cache (order_init + adapt_order_increase, the order
\* of the outermost call having gone through limit_order) is an index of
\* cache_e and cache_jwt: it lies in [0, g_max_quad + 1 + 4 * g_max_quad + 4).
C27_OrdersWithinCache ==
  asm_pc.at = "adaptive" =>
     \A k \in DOMAIN asm_pc.stack :
        asm_pc.stack[k].at # "called" => asm_pc.stack[k].order \in CacheSlots

(***************************************************************************)
(* More properties of SpecForms                                            *)
(***************************************************************************)
\* C29: no negative DOF is passed to a scalar insertion: every
\* mat->add(row, col, value) and rhs->add(row, value) of a multi-component
\* volume form, for each of its components, has row >= 0 and col >= 0.
C29_NoNegativeDofInserted ==
  form_log.kind \in {"mfvol_mc", "vfvol_mc"} =>
     \A k \in DOMAIN form_log.entries :
        \A d \in form_log.entries[k].dofs : \A c \in DOMAIN d : d[c] >= 0

(***************************************************************************)
(* Properties of SpecPrev                                                  *)
(***************************************************************************)
\* C30: in every routine the function of slot k is derived from
\* u_ext[k + u_ext_offset], the solution that was tested against NULL for
\* the slot; a slot whose solution is NULL gets no function.
C30_SlotDerivedFromTestedSolution ==
  asm_pc.routine # "none" =>
     \A k \in DOMAIN asm_pc.filled :
        IF asm_in.u_ext[k + asm_in.u_ext_offset + 1] # NULL
        THEN asm_pc.filled[k] = FnOf(asm_in.u_ext, k + asm_in.u_ext_offset)
        ELSE asm_pc.filled[k] = NoFn

====
